---------------------------- MODULE Spec2Model ----------------------------
(***************************************************************************)
(* A model of the poker engine: the hand evaluator (poker/hands.py), the   *)
(* betting state machine and the room (poker/game.py) and the optimistic   *)
(* compare-and-swap store wrapper (poker/consul.py).                       *)
(*                                                                         *)
(* Encoding of Python values:                                              *)
(*   Optional[T]   None is <<>>, a present value v of an int field is <<v>>*)
(*                 (eligibility); an optional record (game) is the record  *)
(*                 itself or None                                          *)
(*   dict          a sequence of entries in insertion order                *)
(*   str of cards  a sequence of card numbers 0..51, card n being the      *)
(*                 two characters get_card(n) cuts out of _CARDS           *)
(*   raise         the marker Raised in place of the result                *)
(***************************************************************************)
EXTENDS Integers, Sequences, FiniteSets, TLC

None == <<>>
Raised == [raised |-> TRUE]
NOT_PRESENT == [not_present |-> TRUE]
NO_CHANGE == [no_change |-> TRUE]

Min(a, b) == IF a < b THEN a ELSE b
Max(a, b) == IF a > b THEN a ELSE b

\* Python's lst[0:k]
Take(s, k) == SubSeq(s, 1, Min(k, Len(s)))

\* Python's lst[k:]
Drop(s, k) == SubSeq(s, Min(k, Len(s)) + 1, Len(s))

RECURSIVE SeqSum(_)
SeqSum(s) == IF s = <<>> THEN 0 ELSE s[1] + SeqSum(Tail(s))

SeqSet(s) == {s[i] : i \in 1..Len(s)}

SetMax(S) == CHOOSE x \in S : \A y \in S : y <= x
SetMin(S) == CHOOSE x \in S : \A y \in S : x <= y

(***************************************************************************)
(* poker/hands.py                                                          *)
(***************************************************************************)
CARD == 1
PAIR == 2
TWO_PAIRS == 3
SET == 4
STRAIGHT == 5
FLUSH == 6
FULL_HOUSE == 7
QUAD == 8
STRAIGHT_FLUSH == 9

\* Card.value: the card's number is _NUMBERS[n \div 4], "AKQJX98765432"
CardValue(c) == 12 - (c \div 4)

\* Card.suit: _SUITS[n % 4], "SHCD"; 0 = S, 1 = H, 2 = C, 3 = D
CardSuit(c) == c % 4

\* The ASCII code of the card's number character: Card defines __lt__ only,
\* so max() over two Cards compares them with str.__gt__.
NumberChar(c) ==
    LET v == CardValue(c)
    IN  CASE v = 12 -> 65
          [] v = 11 -> 75
          [] v = 10 -> 81
          [] v = 9 -> 74
          [] v = 8 -> 88
          [] OTHER -> v + 50

SuitChar(c) ==
    LET s == CardSuit(c)
    IN  CASE s = 0 -> 83
          [] s = 1 -> 72
          [] s = 2 -> 67
          [] OTHER -> 68

StrGreater(a, b) ==
    \/ NumberChar(a) > NumberChar(b)
    \/ NumberChar(a) = NumberChar(b) /\ SuitChar(a) > SuitChar(b)

\* max(a, b) of two Cards
CardMax(a, b) == IF StrGreater(b, a) THEN b ELSE a

\* Hand.__init__: five cards, or ValueError
Hand(value, cards) ==
    IF Len(cards) # 5 THEN Raised ELSE [value |-> value, cards |-> cards]

\* Hand.sort_key
sort_key(hand) ==
    <<hand.value, [i \in 1..Len(hand.cards) |-> CardValue(hand.cards[i])]>>

RECURSIVE LexLess(_, _)
LexLess(s, t) ==
    IF s = <<>> THEN t # <<>>
    ELSE IF t = <<>> THEN FALSE
    ELSE IF s[1] # t[1] THEN s[1] < t[1]
    ELSE LexLess(Tail(s), Tail(t))

\* tuple comparison of two sort keys
KeyLess(k1, k2) == k1[1] < k2[1] \/ (k1[1] = k2[1] /\ LexLess(k1[2], k2[2]))

_get_value_groups(cards) ==
    [v \in 0..12 |-> SelectSeq(cards, LAMBDA c : CardValue(c) = v)]

\* the groups of value v, v-1, .., 0 concatenated: "for group in grouped[::-1]"
RECURSIVE GroupsDesc(_, _)
GroupsDesc(groups, v) ==
    IF v < 0 THEN <<>> ELSE groups[v] \o GroupsDesc(groups, v - 1)

get_straight(value_groups) ==
    LET hits == {i \in 3..12 : \A k \in 0..4 : value_groups[(i - k) % 13] # <<>>}
    IN  IF hits = {} THEN None
        ELSE LET i == SetMax(hits)
             IN  Hand(STRAIGHT, [k \in 1..5 |-> value_groups[(i - (k - 1)) % 13][1]])

get_flushes(value_groups) ==
    LET all == GroupsDesc(value_groups, 12)
        suit_cards(s) == SelectSeq(all, LAMBDA c : CardSuit(c) = s)
        full == {s \in 0..3 : Len(suit_cards(s)) >= 5}
    IN  IF full = {} THEN None
        ELSE LET cards == suit_cards(SetMin(full))
                 straight == get_straight(_get_value_groups(cards))
             IN  IF straight = Raised THEN Raised
                 ELSE IF straight # None THEN Hand(STRAIGHT_FLUSH, straight.cards)
                 ELSE Hand(FLUSH, Take(cards, 5))

\* lengths[n - 1]: the cards of the groups of n cards, highest value first
RECURSIVE ByLength(_, _, _)
ByLength(grouped, n, v) ==
    IF v < 0 THEN <<>>
    ELSE (IF Len(grouped[v]) = n THEN grouped[v] ELSE <<>>)
            \o ByLength(grouped, n, v - 1)

get_matched_values(grouped) ==
    LET singles == ByLength(grouped, 1, 12)
        pairs == ByLength(grouped, 2, 12)
        sets == ByLength(grouped, 3, 12)
        quads == ByLength(grouped, 4, 12)
    IN  IF quads # <<>> THEN
            LET value == CardValue(quads[1])
                others == {v \in 0..12 : grouped[v] # <<>> /\ v # value}
            IN  IF others = {} THEN Raised
                ELSE Hand(QUAD, quads \o <<grouped[SetMax(others)][1]>>)
        ELSE IF Len(sets) > 3 THEN Hand(FULL_HOUSE, Take(sets, 5))
        ELSE IF sets # <<>> /\ pairs # <<>> THEN Hand(FULL_HOUSE, sets \o Take(pairs, 2))
        ELSE IF sets # <<>> THEN Hand(SET, sets \o Take(singles, 2))
        ELSE IF Len(pairs) > 4 THEN
            IF singles = <<>> THEN Raised
            ELSE Hand(TWO_PAIRS, Take(pairs, 4) \o <<CardMax(pairs[5], singles[1])>>)
        ELSE IF Len(pairs) > 2 THEN
            IF singles = <<>> THEN Raised
            ELSE Hand(TWO_PAIRS, Take(pairs, 4) \o <<singles[1]>>)
        ELSE IF pairs # <<>> THEN Hand(PAIR, pairs \o Take(singles, 3))
        ELSE Hand(CARD, Take(singles, 5))

\* the choice _find_best_hand makes between the hands found in the groups
BestOf(flush, matched_values, straight) ==
    IF flush # None THEN flush
    ELSE IF matched_values = Raised THEN Raised
    ELSE IF matched_values.value \in {QUAD, FULL_HOUSE} THEN matched_values
    ELSE IF straight # None THEN straight
    ELSE matched_values

BestOfGroups(grouped) ==
    BestOf(get_flushes(grouped), get_matched_values(grouped), get_straight(grouped))

\* an evaluator that looks at the first five cards only
BestOfFirstFive(cards) == BestOfGroups(_get_value_groups(Take(cards, 5)))

_find_best_hand(cards) == BestOfGroups(_get_value_groups(cards))

find_best_hand(card_str) == _find_best_hand(card_str)

\* _get_winners raises: next() on no hand at all, or an evaluation that raises
get_winners_raises(hands) ==
    \/ hands = <<>>
    \/ \E i \in 1..Len(hands) : find_best_hand(hands[i][2]) = Raised

\* a _get_winners that yields the first hand it was given and no other
FirstHandOnly(evaluated_hands) == <<evaluated_hands[1]>>

\* hands: a sequence of <<owner, cards>>; the result a sequence of
\* <<owner, Hand>>, the owners whose sort_key is the maximum, in input order
\* (sorted() is stable, also with reverse=True)
TopHands(evaluated_hands) ==
    LET best == CHOOSE i \in 1..Len(evaluated_hands) : \A j \in 1..Len(evaluated_hands) :
                    ~KeyLess(sort_key(evaluated_hands[i][2]), sort_key(evaluated_hands[j][2]))
        argmax == sort_key(evaluated_hands[best][2])
    IN  SelectSeq(evaluated_hands, LAMBDA e : sort_key(e[2]) = argmax)

get_winners(hands) ==
    TopHands([i \in 1..Len(hands) |-> <<hands[i][1], find_best_hand(hands[i][2])>>])

(***************************************************************************)
(* poker/game.py: the betting state machine                                *)
(*   PlayerInHand  [session_id, bet, eligibility, has_option]              *)
(*   Game          [players, pot, stage, deck]                             *)
(*   Player        [session_id, name, balance, pending_balance], an entry  *)
(*                 of the dict Room.players, session_id being its key      *)
(*   Room          [game, admin, players, blind_interval, small_blind, log]*)
(*   CompletedGame [community_cards, players], players the entries         *)
(*                 [session_id, hand, payout] of a dict of PlayerAfterGame *)
(***************************************************************************)
PRE_FLOP == 0
FLOP == 1
TURN == 2
RIVER == 3

REVEALED_CARDS(stage) ==
    CASE stage = PRE_FLOP -> 0
      [] stage = FLOP -> 3
      [] stage = TURN -> 4
      [] stage = RIVER -> 5

\* PlayerInHand(session_id=.., bet=0): eligibility 0 and has_option True by default
PlayerInHand(session_id) ==
    [session_id |-> session_id, bet |-> 0, eligibility |-> <<0>>, has_option |-> TRUE]

\* the index of the entry of key session_id in a dict, 0 when it has none
KeyIdx(entries, session_id) ==
    IF \E i \in 1..Len(entries) : entries[i].session_id = session_id
    THEN CHOOSE i \in 1..Len(entries) : entries[i].session_id = session_id
    ELSE 0

Keys(entries) == {entries[i].session_id : i \in 1..Len(entries)}

\* Room.get_balances
get_balances(room) ==
    [s \in Keys(room.players) |-> room.players[KeyIdx(room.players, s)].balance]

RECURSIVE SumBets(_, _)
\* the sum of the round bets of the players whose index is in S
SumBets(players, S) ==
    IF S = {} THEN 0
    ELSE LET i == CHOOSE j \in S : TRUE
         IN  players[i].bet + SumBets(players, S \ {i})

\* the next to act as one scan of the rotation that starts just after the
\* highest bettor: the first player in it who is not folded, has chips, and
\* has bet less than the highest bet or, no such player being behind, still
\* has the option
NextInRotation(game, balances) ==
    LET players == game.players
        n == Len(players)
        high_bet == SetMax({players[i].bet : i \in 1..n})
        high_bettor == SetMin({i \in 1..n : players[i].bet = high_bet})
        live(i) == /\ players[i].eligibility # None
                   /\ balances[players[i].session_id] # 0
        rotated(k) == ((high_bettor + k - 1) % n) + 1
        settled == \A i \in 1..n : live(i) => players[i].bet = high_bet
        due == {k \in 1..n : /\ live(rotated(k))
                              /\ \/ players[rotated(k)].bet < high_bet
                                 \/ settled /\ players[rotated(k)].has_option}
    IN  IF due = {} THEN None ELSE <<players[rotated(SetMin(due))].session_id>>

\* Game.get_next_to_act: <<session_id>> or None
get_next_to_act(game, balances) ==
    LET players == game.players
        n == Len(players)
        high_bet == SetMax({players[i].bet : i \in 1..n})
        \* the first player holding the highest bet
        high_bettor == SetMin({i \in 1..n : players[i].bet = high_bet})
        live(i) == /\ players[i].eligibility # None
                   /\ balances[players[i].session_id] # 0
        \* the k-th player of the rotation that starts just after high_bettor
        rotated(k) == ((high_bettor + k - 1) % n) + 1
        behind == {k \in 1..n : live(rotated(k)) /\ players[rotated(k)].bet < high_bet}
        can_bet == Cardinality({i \in 1..n : live(i)})
        with_option == {i \in 1..n : players[i].has_option /\ live(i)}
    IN  IF behind # {} THEN <<players[rotated(SetMin(behind))].session_id>>
        ELSE IF can_bet >= 2 /\ with_option # {} THEN <<players[SetMin(with_option)].session_id>>
        ELSE None

\* Game._should_do_more_betting_rounds
_should_do_more_betting_rounds(game) ==
    Cardinality({i \in 1..Len(game.players) : game.players[i].eligibility # None}) >= 2

\* a settlement that credits every player its own round bet only
FinalizeOwnBet(game) ==
    [game EXCEPT !.players = [i \in 1..Len(game.players) |->
        [game.players[i] EXCEPT
            !.bet = 0,
            !.has_option = TRUE,
            !.eligibility = IF @ = None THEN None ELSE <<@[1] + game.players[i].bet>>]]]

\* a _finalize_betting that leaves the bets of the folded players out
FinalizeWithoutFolded(game) ==
    LET players == game.players
        n == Len(players)
        in(j) == players[j].eligibility # None
        before(i) == {j \in 1..n : /\ in(j)
                                   /\ \/ players[j].bet < players[i].bet
                                      \/ players[j].bet = players[i].bet /\ j < i}
        bets_above(i) == Cardinality({j \in 1..n : in(j)}) - Cardinality(before(i))
    IN  [game EXCEPT !.players = [i \in 1..n |->
            [players[i] EXCEPT
                !.bet = 0,
                !.has_option = TRUE,
                !.eligibility = IF @ = None THEN None
                                ELSE <<@[1] + SumBets(players, before(i))
                                            + players[i].bet * bets_above(i)>>]]]

\* Game._finalize_betting: the game after it; its return value is players_in
_finalize_betting(game) ==
    LET players == game.players
        n == Len(players)
        \* the players that sorted(key=bet), a stable sort, puts before player i
        before(i) == {j \in 1..n : \/ players[j].bet < players[i].bet
                                   \/ players[j].bet = players[i].bet /\ j < i}
        cumulative(i) == SumBets(players, before(i))
        bets_above(i) == n - Cardinality(before(i))
    IN  [game EXCEPT !.players = [i \in 1..n |->
            [players[i] EXCEPT
                !.bet = 0,
                !.has_option = TRUE,
                !.eligibility = IF @ = None THEN None
                                ELSE <<@[1] + cumulative(i) + players[i].bet * bets_above(i)>>]]]

players_in(game) ==
    Cardinality({i \in 1..Len(game.players) : game.players[i].eligibility # None})

\* an advance_state that settles the round and leaves the stage as it is
SettleWithoutAdvance(game, balances) ==
    IF get_next_to_act(game, balances) # None
    THEN [game |-> game, showdown |-> FALSE]
    ELSE LET g == _finalize_betting(game)
         IN  [game |-> g, showdown |-> players_in(g) < 2 \/ g.stage = RIVER]

RECURSIVE BettingLoop(_, _)
\* the while loop of advance_state: the game it leaves, and whether it left
\* by break (showdown) or by return (a player is next to act)
BettingLoop(game, balances) ==
    IF get_next_to_act(game, balances) # None
    THEN [game |-> game, showdown |-> FALSE]
    ELSE LET g == _finalize_betting(game)
         IN  IF players_in(g) < 2 THEN [game |-> g, showdown |-> TRUE]
             ELSE IF g.stage = RIVER THEN [game |-> g, showdown |-> TRUE]
             ELSE IF ~_should_do_more_betting_rounds(g) THEN [game |-> g, showdown |-> TRUE]
             ELSE BettingLoop([g EXCEPT !.stage = @ + 1], balances)

\* a decrement_balance that takes what was asked for, whatever the balance
TakeRequested(balance, value) == value

\* Player.decrement_balance: the amount taken
decrement_balance(balance, value) == Min(balance, value)

\* Game._check_can_bet
_check_can_bet(room, session_id) ==
    <<session_id>> = get_next_to_act(room.game, get_balances(room))

\* a fold that marks the player folded and leaves the option flag alone
FoldKeepsOption(room, session_id) ==
    IF ~_check_can_bet(room, session_id) THEN room
    ELSE [room EXCEPT !.game.players[KeyIdx(room.game.players, session_id)].eligibility = None]

\* Game.fold
GameFold(room, session_id) ==
    IF ~_check_can_bet(room, session_id) THEN room
    ELSE LET i == KeyIdx(room.game.players, session_id)
         IN  [room EXCEPT !.game.players[i].eligibility = None,
                          !.game.players[i].has_option = FALSE]

\* a bet that moves the chips to the round bet and leaves the pot as it is
BetBesidePot(room, session_id, value) ==
    LET i == KeyIdx(room.game.players, session_id)
        p == KeyIdx(room.players, session_id)
        got == Min(room.players[p].balance, value - room.game.players[i].bet)
    IN  IF got < 0 THEN [room |-> room, got |-> None]
        ELSE [room |-> [room EXCEPT !.players[p].balance = @ - got,
                                    !.game.players[i].bet = @ + got,
                                    !.game.players[i].has_option = FALSE],
              got |-> <<got>>]

\* Game._bet: [room, got], got being None when the bet is refused
_bet(room, session_id, value) ==
    LET game == room.game
        i == KeyIdx(game.players, session_id)
        bettor == game.players[i]
        p == KeyIdx(room.players, session_id)
        needed == value - bettor.bet
        min_bet == SetMax({game.players[j].bet : j \in 1..Len(game.players)})
    IN  IF needed < 0 THEN [room |-> room, got |-> None]
        ELSE IF value < min_bet /\ ~(min_bet > room.players[p].balance)
        THEN [room |-> room, got |-> None]
        ELSE LET got == decrement_balance(room.players[p].balance, needed)
             IN  [room |-> [room EXCEPT !.players[p].balance = @ - got,
                                        !.game.players[i].bet = @ + got,
                                        !.game.players[i].has_option = FALSE,
                                        !.game.pot = @ + got],
                  got |-> <<got>>]

\* Game.bet
GameBet(room, session_id, value) ==
    IF ~_check_can_bet(room, session_id) THEN room
    ELSE _bet(room, session_id, value).room

\* Game._live_players: the indices, in act order, of the players with chips
_live_players(room) ==
    LET balances == get_balances(room)
        players == room.game.players
        idx == [i \in 1..Len(players) |-> i]
    IN  SelectSeq(idx, LAMBDA i : /\ players[i].session_id \in DOMAIN balances
                                  /\ balances[players[i].session_id] > 0)

\* a big blind that is the second live player also when two are live
BigBlindBySecond(room) ==
    LET live_players == _live_players(room)
    IN  IF Len(live_players) >= 2 THEN live_players[2] ELSE 0

\* Game.big_blind and Game.small_blind: an index into game.players, 0 for IndexError
big_blind(room) ==
    LET live_players == _live_players(room)
    IN  IF Len(live_players) = 2 THEN live_players[1]
        ELSE IF Len(live_players) >= 2 THEN live_players[2]
        ELSE 0

\* a small blind that is the first live player also when two are live
SmallBlindByFirst(room) ==
    LET live_players == _live_players(room)
    IN  IF Len(live_players) >= 1 THEN live_players[1] ELSE 0

small_blind(room) ==
    LET live_players == _live_players(room)
    IN  IF Len(live_players) = 2 THEN live_players[2]
        ELSE IF Len(live_players) >= 1 THEN live_players[1]
        ELSE 0

\* Game.initialize
initialize(room) ==
    LET small_blind_player == small_blind(room)
        big_blind_player == big_blind(room)
    IN  IF small_blind_player = 0 \/ big_blind_player = 0 THEN Raised
        ELSE LET sb == _bet(room, room.game.players[small_blind_player].session_id,
                            room.small_blind)
             IN  IF sb.got = None THEN Raised
                 ELSE LET bb == _bet(sb.room, room.game.players[big_blind_player].session_id,
                                     room.small_blind * 2)
                      IN  IF bb.got = None THEN Raised
                          ELSE [bb.room EXCEPT
                                  !.game.pot = sb.got[1] + bb.got[1],
                                  !.game.players[small_blind_player].has_option = TRUE,
                                  !.game.players[big_blind_player].has_option = TRUE]

\* Game._hole_cards_idx, idx counted from 0
_hole_cards_idx(game, idx) == SubSeq(game.deck, idx * 2 + 1, Min(idx * 2 + 2, Len(game.deck)))

\* Game.community_cards
community_cards(game) ==
    LET start == Len(game.players) * 2
        end == start + REVEALED_CARDS(game.stage)
    IN  SubSeq(game.deck, Min(start, Len(game.deck)) + 1, Min(end, Len(game.deck)))

\* Game._get_final_hands: the contenders in act order, each with a copy of
\* its player's eligibility and its hole cards
_get_final_hands(game) ==
    LET players == game.players
        idx == SelectSeq([i \in 1..Len(players) |-> i],
                         LAMBDA i : players[i].eligibility # None
                                    /\ players[i].eligibility[1] > 0)
    IN  [k \in 1..Len(idx) |->
            [session_id |-> players[idx[k]].session_id,
             eligibility |-> players[idx[k]].eligibility[1],
             hole |-> _hole_cards_idx(game, idx[k] - 1)]]

\* the list `eliminated` of one payout round: after each of the n_winners
\* payments every contender's eligibility drops by amount, and each
\* contender at or below zero is appended (again)
RECURSIVE Eliminated(_, _, _, _)
Eliminated(final_hands, amount, n_winners, w) ==
    IF w > n_winners THEN <<>>
    ELSE LET out == SelectSeq(final_hands, LAMBDA h : h.eligibility - w * amount <= 0)
         IN  [k \in 1..Len(out) |-> out[k].session_id]
                \o Eliminated(final_hands, amount, n_winners, w + 1)

\* a pay_player that records the hole cards of every winner
AlwaysShown(final_hands, s_id) == final_hands[KeyIdx(final_hands, s_id)].hole

\* the hand pay_player records: "Winner has to show down to win"
ShownHand(final_hands, s_id) ==
    IF Len(final_hands) > 1 THEN final_hands[KeyIdx(final_hands, s_id)].hole ELSE None

\* pay_player for each of winning_players in turn, on the dict
\* completed_game.players
RECURSIVE PayPlayers(_, _, _, _)
PayPlayers(paid, winning_players, amount, final_hands) ==
    IF winning_players = <<>> THEN paid
    ELSE LET s_id == winning_players[1]
             hand == ShownHand(final_hands, s_id)
             with_entry == IF KeyIdx(paid, s_id) = 0
                           THEN Append(paid, [session_id |-> s_id, hand |-> hand, payout |-> 0])
                           ELSE paid
             k == KeyIdx(with_entry, s_id)
         IN  PayPlayers([with_entry EXCEPT ![k].payout = @ + amount],
                        Tail(winning_players), amount, final_hands)

\* the winning_players of one round of the payout loop
\* [w[0] for w in winners]
Owners(winners) == [k \in 1..Len(winners) |-> winners[k][1]]

WinningPlayers(final_hands, community) ==
    IF Len(final_hands) = 1 THEN <<final_hands[1].session_id>>
    ELSE Owners(get_winners([k \in 1..Len(final_hands) |->
                    <<final_hands[k].session_id, community \o final_hands[k].hole>>]))

WinningPlayersRaises(final_hands, community) ==
    /\ Len(final_hands) # 1
    /\ get_winners_raises([k \in 1..Len(final_hands) |->
            <<final_hands[k].session_id, community \o final_hands[k].hole>>])

\* a round that pays one chip to each winner
OneChipEach(final_hands, winning_players) == 1

\* the per-winner amount of one round
RoundAmount(final_hands, winning_players) ==
    SetMin({final_hands[KeyIdx(final_hands, winning_players[k])].eligibility :
                k \in 1..Len(winning_players)}) \div Len(winning_players)

\* a round that takes one winner's amount out of the pot, however many it paid
PotLessOnce(pot, amount, n_winners) == pot - amount

\* the pot after "self.pot -= amount" for each of the round's winners
PotAfterRound(pot, amount, n_winners) == pot - amount * n_winners

RECURSIVE PayLoop(_)
\* One round of the while loop of pay_winners, winning_players and amount
\* found: the round's payments, and the loop from there
PayRound(st, winning_players, amount) ==
    LET final_hands == st.final_hands
        n_winners == Len(winning_players)
        round == [contenders |-> [k \in 1..Len(final_hands) |->
                                    [session_id |-> final_hands[k].session_id,
                                     eligibility |-> final_hands[k].eligibility]],
                  winners |-> winning_players,
                  amount |-> amount,
                  pot |-> st.pot]
        eliminated == Eliminated(final_hands, amount, n_winners, 1)
        players == [i \in 1..Len(st.players) |->
                      IF st.players[i].session_id \in SeqSet(winning_players)
                      THEN [st.players[i] EXCEPT !.balance = @ + amount]
                      ELSE st.players[i]]
        decremented == [k \in 1..Len(final_hands) |->
                          [final_hands[k] EXCEPT !.eligibility = @ - amount * n_winners]]
    IN  IF amount = 0
        THEN [st EXCEPT !.stopped = TRUE, !.rounds = Append(@, round)]
        ELSE IF \E i, j \in 1..Len(eliminated) : i < j /\ eliminated[i] = eliminated[j]
        THEN Raised
        ELSE IF st.max_payouts - 1 < 0 THEN Raised
        ELSE PayLoop([st EXCEPT
                !.final_hands = SelectSeq(decremented,
                                    LAMBDA h : h.session_id \notin SeqSet(eliminated)),
                !.pot = PotAfterRound(@, amount, n_winners),
                !.players = players,
                !.paid = PayPlayers(@, winning_players, amount, final_hands),
                !.max_payouts = @ - 1,
                !.rounds = Append(@, round)])

PayWinning(st, winning_players) ==
    PayRound(st, winning_players, RoundAmount(st.final_hands, winning_players))

\* The while loop of pay_winners over
\*   st = [final_hands, pot, players, paid, max_payouts, community, rounds,
\*         stopped]
\* players being room.players and paid completed_game.players; rounds (what
\* each round saw and paid) and stopped (the loop left by `return`) are
\* history. Raised for KeyError, the assertions and a raising get_winners.
PayLoop(st) ==
    IF ~(st.pot > 0) THEN (IF st.pot = 0 THEN st ELSE Raised)
    ELSE IF WinningPlayersRaises(st.final_hands, st.community) THEN Raised
    ELSE PayWinning(st, WinningPlayers(st.final_hands, st.community))

\* the state in which pay_winners leaves its loop, or Raised
PayOutcome(room) ==
    LET final_hands == _get_final_hands(room.game)
    IN  PayLoop([final_hands |-> final_hands,
                 pot |-> room.game.pot,
                 players |-> room.players,
                 paid |-> <<>>,
                 max_payouts |-> Len(final_hands),
                 community |-> community_cards(room.game),
                 rounds |-> <<>>,
                 stopped |-> FALSE])

\* Game.pay_winners: the room after it, or Raised
Paid(room, st) ==
    IF st = Raised THEN Raised
    ELSE [room EXCEPT
            !.log = Append(@, [community_cards |-> st.community, players |-> st.paid]),
            !.players = st.players,
            !.game.pot = st.pot]

pay_winners(room) == Paid(room, PayOutcome(room))

\* a _should_continue that is content with one player who has chips
AnyoneLeft(room) == \E i \in 1..Len(room.players) : room.players[i].balance # 0

(***************************************************************************)
(* poker/game.py: the room                                                 *)
(***************************************************************************)
\* Room._should_continue
_should_continue(room) ==
    Cardinality({i \in 1..Len(room.players) : room.players[i].balance # 0}) >= 2

RECURSIVE Pow2(_)
\* 1 << n
Pow2(n) == IF n <= 0 THEN 1 ELSE 2 * Pow2(n - 1)

\* _make_deck: the first cards of a shuffle of the 52 card numbers
_make_deck(num_players, shuffle) == Take(shuffle, num_players * 2 + 5)

\* Room._add_pending_players_to_game_list; order is the outcome of
\* random.shuffle, given as a sequence in which every session occurs once
_add_pending_players_to_game_list(room, players, order) ==
    LET in_game == Keys(players)
        pending == SelectSeq(order, LAMBDA s : s \in Keys(room.players) /\ s \notin in_game)
    IN  [k \in 1..Len(pending) |-> PlayerInHand(pending[k])] \o players

\* a rotation by one seat, whoever has chips
RotateByOne(room, previous_game) == 1

\* the rotate_by of new_game
RotateBy(room, previous_game) ==
    LET players == previous_game.players
        funded == {i \in 1..Len(players) :
                      room.players[KeyIdx(room.players, players[i].session_id)].balance > 0}
    IN  IF funded = {} THEN Len(players) + 1 ELSE SetMin(funded)

\* a new_game that leaves the small blind as it is
KeepSmallBlind(room) == room.small_blind

\* the small blind new_game sets
NextSmallBlind(room) ==
    IF room.blind_interval > 0
    THEN Pow2(Len(room.log) \div room.blind_interval)
    ELSE room.small_blind

\* the pot the new Game is constructed with
PreviousPot(previous_game) == IF previous_game = None THEN 0 ELSE previous_game.pot

\* Room.new_game; rnd = [order, shuffle] is what the random module returns
new_game(room, previous_game, rnd) ==
    IF ~_should_continue(room) THEN [room EXCEPT !.game = None]
    ELSE LET in_hand ==
                 IF previous_game = None THEN <<>>
                 ELSE LET rotate_by == RotateBy(room, previous_game)
                          rotated_players == Drop(previous_game.players, rotate_by)
                                                \o Take(previous_game.players, rotate_by)
                      IN  [k \in 1..Len(rotated_players) |->
                              PlayerInHand(rotated_players[k].session_id)]
             game == [players |-> _add_pending_players_to_game_list(room, in_hand, rnd.order),
                      deck |-> _make_deck(Len(room.players), rnd.shuffle),
                      pot |-> PreviousPot(previous_game),
                      stage |-> 0]
         IN  initialize([room EXCEPT !.small_blind = NextSmallBlind(room), !.game = game])

\* Game.advance_state
\* "room.new_game(self)" after pay_winners
AfterPay(paid, rnd) == IF paid = Raised THEN Raised ELSE new_game(paid, paid.game, rnd)

\* advance_state from the end of its while loop
AfterLoop(room, loop, rnd) ==
    IF ~loop.showdown THEN [room EXCEPT !.game = loop.game]
    ELSE AfterPay(pay_winners([room EXCEPT !.game = loop.game]), rnd)

advance_state(room, rnd) ==
    AfterLoop(room, BettingLoop(room.game, get_balances(room)), rnd)

\* Room(players=dict(), small_blind=1, log=[], admin=session_id)
NewRoom(session_id) ==
    [game |-> None, admin |-> <<session_id>>, players |-> <<>>,
     blind_interval |-> 10, small_blind |-> 1, log |-> <<>>]

\* the room size from which register refuses a new player
RoomLimit == 10

\* a register that does not look at the names in use
RegisterAnyName(state, session_id, player_name) ==
    LET room == IF state = NOT_PRESENT THEN NewRoom(session_id) ELSE state
        i == KeyIdx(room.players, session_id)
    IN  IF i # 0 THEN [room EXCEPT !.players[i].name = player_name]
        ELSE [room EXCEPT
                !.players = Append(@, [session_id |-> session_id, name |-> player_name,
                                       balance |-> 0, pending_balance |-> 0])]

\* a register that makes every new player the admin
RegisterTakesAdmin(state, session_id, player_name) ==
    LET room == IF state = NOT_PRESENT THEN NewRoom(session_id) ELSE state
        i == KeyIdx(room.players, session_id)
    IN  IF \E k \in 1..Len(room.players) :
                /\ room.players[k].session_id # session_id
                /\ room.players[k].name = player_name
        THEN Raised
        ELSE IF i # 0 THEN [room EXCEPT !.players[i].name = player_name]
        ELSE IF Len(room.players) > RoomLimit THEN Raised
        ELSE [room EXCEPT
                !.players = Append(@, [session_id |-> session_id, name |-> player_name,
                                       balance |-> 0, pending_balance |-> 0]),
                !.admin = <<session_id>>]

\* register.mutate
register(state, session_id, player_name) ==
    LET room == IF state = NOT_PRESENT THEN NewRoom(session_id) ELSE state
        i == KeyIdx(room.players, session_id)
    IN  IF \E k \in 1..Len(room.players) :
                /\ room.players[k].session_id # session_id
                /\ room.players[k].name = player_name
        THEN Raised
        ELSE IF i # 0 THEN [room EXCEPT !.players[i].name = player_name]
        ELSE IF Len(room.players) > RoomLimit THEN Raised
        ELSE [room EXCEPT
                !.players = Append(@, [session_id |-> session_id, name |-> player_name,
                                       balance |-> 0, pending_balance |-> 0]),
                !.admin = IF @ = None THEN <<session_id>> ELSE @]

\* a start that deals whoever calls it and whatever the room holds
StartUnguarded(state, session_id, rnd) ==
    IF state = NOT_PRESENT THEN Raised ELSE new_game(state, None, rnd)

\* start.mutation
start(state, session_id, rnd) ==
    IF state = NOT_PRESENT THEN Raised
    ELSE IF state.admin # None /\ state.admin # <<session_id>> THEN Raised
    ELSE IF KeyIdx(state.players, session_id) = 0 THEN Raised
    ELSE IF state.game # None THEN Raised
    ELSE IF Len(state.players) < 2 THEN Raised
    ELSE new_game(state, None, rnd)

\* add_bet.mutation
add_bet(room, session_id, value, rnd) ==
    IF room = NOT_PRESENT THEN Raised
    ELSE IF room.game = None THEN Raised
    ELSE advance_state(GameBet(room, session_id, value), rnd)

\* fold.mutation
fold(room, session_id, rnd) ==
    IF room = NOT_PRESENT THEN Raised
    ELSE IF room.game = None THEN Raised
    ELSE advance_state(GameFold(room, session_id), rnd)

\* Room.get_player_by_name: the index of the first player of that name, or 0
get_player_by_name(room, name) ==
    LET named == {i \in 1..Len(room.players) : room.players[i].name = name}
    IN  IF named = {} THEN 0 ELSE SetMin(named)

\* an increment_balance that any session may call
IncrementByAnyone(room, session_id, name, amount) ==
    IF room = NOT_PRESENT THEN Raised
    ELSE LET i == get_player_by_name(room, name)
         IN  IF i = 0 THEN Raised
             ELSE [room EXCEPT !.players[i].balance = @ + amount]

\* increment_balance.mutation
increment_balance(room, session_id, name, amount) ==
    IF room = NOT_PRESENT THEN Raised
    ELSE IF <<session_id>> # room.admin THEN Raised
    ELSE LET i == get_player_by_name(room, name)
         IN  IF i = 0 THEN Raised
             ELSE [room EXCEPT !.players[i].balance = @ + amount]

(***************************************************************************)
(* poker/consul.py: the store and ConsulKey.mutate                         *)
(*   store  the key's entry: its ModifyIndex and its value, NOT_PRESENT    *)
(*          and index 0 while the key does not exist                       *)
(*   calls  per session the mutate call it is in:                          *)
(*          pc     idle | get | put | done                                 *)
(*          op     the room-level call and its arguments, which fix fn     *)
(*          index, value   what self.get() returned last                   *)
(*          reads, writes  the reads and the accepted writes of this call  *)
(*                 (history)                                               *)
(*          ret    what the call returned, Raised when it raised           *)
(***************************************************************************)
VARIABLES store, calls

vars == <<store, calls>>

\* the sessions, in the order in which seeded rooms register them
Sessions == <<"a", "b", "c">>

\* the name a session registers under in a seeded room
NameOf(session_id) ==
    CASE session_id = "a" -> "A"
      [] session_id = "b" -> "B"
      [] OTHER -> "C"

\* the store accepts writes while the entry's index is below MaxIndex
MaxIndex == 5

\* bet values 0..MaxBet, and AllIn, a value no stack covers
MaxBet == 2
AllIn == 200

BetValues == (0..MaxBet) \cup {AllIn}

\* the balances of the rooms SpecPlay starts from, per session in
\* registration order
StackSeeds ==
    {<<100>>, <<0, 0>>, <<1, 1>>, <<1, 3>>, <<100, 100>>, <<5, 10, 20>>, <<2, 2, 2>>}

\* the orders random.shuffle may leave the list seq in
ShuffleOrders(seq) ==
    {o \in [1..Len(seq) -> SeqSet(seq)] : \A i, j \in 1..Len(seq) : i # j => o[i] # o[j]}

\* shuffles random.shuffle(number_deck) may produce, cut to the cards a
\* table of three draws.  With three players the hole cards are cards 1-2,
\* 3-4 and 5-6 and the community cards 7-11; with two players 1-2, 3-4 and
\* 5-9.
Shuffles ==
    { \* AH AS | AD AC | XD XS | 3C 9S 5D JS QC: the first two tie, the third loses
      <<1, 0, 3, 2, 19, 16, 46, 20, 39, 12, 10>>,
      \* AH AS | KD KC | XD XS | 3C 9S 5D JS QC: first beats second beats third
      <<1, 0, 7, 6, 19, 16, 46, 20, 39, 12, 10>>,
      \* KD KC | KS KH | AH AS | 3C 9S 5D JS QC: third wins, the first two tie
      <<7, 6, 4, 5, 1, 0, 46, 20, 39, 12, 10>> }

\* the sessions new_game finds registered and not in the previous game, in
\* dict order: the list _add_pending_players_to_game_list shuffles
Pending(room) ==
    LET ids == [i \in 1..Len(room.players) |-> room.players[i].session_id]
    IN  IF room.game = None THEN ids
        ELSE SelectSeq(ids, LAMBDA id : id \notin Keys(room.game.players))

\* whether fn, applied to value, reaches new_game and so draws from random
Deals(op, value) ==
    /\ value # NOT_PRESENT
    /\ \/ op.name = "start"
       \/ /\ op.name \in {"bet", "fold"}
          /\ value.game # None
          /\ LET room == IF op.name = "bet"
                         THEN GameBet(value, op.session_id, op.value)
                         ELSE GameFold(value, op.session_id)
             IN  BettingLoop(room.game, get_balances(room)).showdown

\* what fn may draw from the random module while applied to value: the
\* order of the pending players and the shuffle of the deck
Draws(op, value) ==
    IF Deals(op, value)
    THEN [order : ShuffleOrders(Pending(value)), shuffle : Shuffles]
    ELSE {[order |-> <<>>, shuffle |-> <<>>]}

IdleCall == [pc |-> "idle"]

\* fn(value) of the room-level call op
Fn(op, value, rnd) ==
    CASE op.name = "register" -> register(value, op.session_id, op.player_name)
      [] op.name = "start" -> start(value, op.session_id, rnd)
      [] op.name = "bet" -> add_bet(value, op.session_id, op.value, rnd)
      [] op.name = "fold" -> fold(value, op.session_id, rnd)
      [] op.name = "cash" -> increment_balance(value, op.session_id, op.player_name, op.amount)
      [] OTHER -> NO_CHANGE

\* self.get(): "if value is NOT_PRESENT: index = 0"
GetResult(entry) ==
    [index |-> IF entry.value = NOT_PRESENT THEN 0 ELSE entry.index, value |-> entry.value]

\* a store that accepts no write
PutRefused(entry, index) == FALSE

\* a store that ignores cas: every write is accepted
PutUnconditional(entry, index) == TRUE

\* the store's answer to put(new_value, cas=index): the write is accepted iff
\* the entry's index is the one given (0: iff the key does not exist)
CasAccepted(entry, index) ==
    IF entry.value = NOT_PRESENT THEN index = 0 ELSE index = entry.index

\* the entry after an accepted write: every write has a new, higher index
Written(entry, new_value) == [index |-> entry.index + 1, value |-> new_value]

\* a loop that goes round again after an accepted put
AfterAcceptedLoops == "get"

\* the pc of a call whose put the store accepted
AfterAccepted == "done"

\* a mutate that writes the value it read back when fn raises
ApplyWritesOnRaise(entry, call, got, new_value) ==
    LET base == [call EXCEPT !.index = got.index, !.value = got.value, !.reads = @ + 1]
    IN  IF new_value = Raised
        THEN [store |-> Written(entry, got.value),
              call |-> [base EXCEPT !.pc = "done", !.ret = Raised]]
        ELSE IF new_value = NO_CHANGE
        THEN [store |-> entry, call |-> [base EXCEPT !.pc = "done", !.ret = got.value]]
        ELSE IF CasAccepted(entry, got.index)
        THEN [store |-> Written(entry, new_value),
              call |-> [base EXCEPT !.pc = "done", !.ret = new_value, !.writes = @ + 1]]
        ELSE [store |-> entry, call |-> [base EXCEPT !.pc = "get"]]

\* mutate from "new_value = fn(value)" to the end of that round of its loop
Apply(entry, call, got, new_value) ==
    LET base == [call EXCEPT !.index = got.index, !.value = got.value, !.reads = @ + 1]
    IN  IF new_value = Raised
        THEN [store |-> entry, call |-> [base EXCEPT !.pc = "done", !.ret = Raised]]
        ELSE IF new_value = NO_CHANGE
        THEN [store |-> entry, call |-> [base EXCEPT !.pc = "done", !.ret = got.value]]
        ELSE IF CasAccepted(entry, got.index)
        THEN [store |-> Written(entry, new_value),
              call |-> [base EXCEPT !.pc = AfterAccepted, !.ret = new_value,
                                    !.writes = @ + 1]]
        ELSE [store |-> entry, call |-> [base EXCEPT !.pc = "get"]]

\* One round of the loop of mutate after self.get() returned got:
\* [store, call], call.pc = "get" when the loop goes round again
MutateStep(entry, call, got, rnd) == Apply(entry, call, got, Fn(call.op, got.value, rnd))

NewCall(op) ==
    [pc |-> "get", op |-> op, index |-> 0, value |-> NOT_PRESENT, reads |-> 0,
     writes |-> 0, ret |-> NOT_PRESENT]

(***************************************************************************)
(* SpecPlay: the room-level calls start, bet and fold made one at a time   *)
(* (no other writer between a call's read and its write) on a room whose   *)
(* players registered and were given their balances by the admin.          *)
(***************************************************************************)
\* the sessions that call concurrently in Spec, and adjust balances
Clients == {"a", "b"}

Names == {"A", "B"}

\* the amounts the admin adjusts a balance by
Amounts == {2}

SeedRoom(stacks) ==
    [NewRoom(Sessions[1]) EXCEPT
        !.players = [i \in 1..Len(stacks) |->
                        [session_id |-> Sessions[i], name |-> NameOf(Sessions[i]),
                         balance |-> stacks[i], pending_balance |-> 0]]]

InitPlay ==
    /\ \E stacks \in StackSeeds : store = [index |-> 1, value |-> SeedRoom(stacks)]
    /\ calls = [s \in SeqSet(Sessions) |-> IdleCall]

WritesLeft == store.index < MaxIndex

\* a whole mutate call of session s with no other call in flight
Play(s, op) ==
    /\ WritesLeft
    /\ \A t \in SeqSet(Sessions) : calls[t].pc = "idle"
    /\ \E rnd \in Draws(op, store.value) :
          \E step \in {MutateStep(store, NewCall(op), GetResult(store), rnd)} :
              /\ store' = step.store
              /\ calls' = [t \in SeqSet(Sessions) |-> IF t = s THEN step.call ELSE IdleCall]

PlayStart(s) ==
    /\ Play(s, [name |-> "start", session_id |-> s])

PlayBet(s, v) ==
    /\ Play(s, [name |-> "bet", session_id |-> s, value |-> v])

PlayFold(s) ==
    /\ Play(s, [name |-> "fold", session_id |-> s])

PlayCash(s, name, amount) ==
    /\ Play(s, [name |-> "cash", session_id |-> s, player_name |-> name, amount |-> amount])

\* the caller has its answer: the call is over
PlayReturn(s) ==
    /\ calls[s].pc = "done"
    /\ calls' = [calls EXCEPT ![s] = IdleCall]
    /\ UNCHANGED store

NextPlay ==
    \/ \E s \in SeqSet(Sessions) : PlayReturn(s)
    \/ \E s \in SeqSet(Sessions) : PlayStart(s)
    \/ \E s \in SeqSet(Sessions), v \in BetValues : PlayBet(s, v)
    \/ \E s \in SeqSet(Sessions) : PlayFold(s)

SpecPlay == InitPlay /\ [][NextPlay]_vars

(***************************************************************************)
(* SpecCash: as SpecPlay, on heads-up rooms, and with adjust-balance calls *)
(* between the calls of the players.                                       *)
(***************************************************************************)
CashSeeds == {<<1, 1>>, <<100, 100>>}

InitCash ==
    /\ \E stacks \in CashSeeds : store = [index |-> 1, value |-> SeedRoom(stacks)]
    /\ calls = [s \in SeqSet(Sessions) |-> IdleCall]

NextCash ==
    \/ NextPlay
    \/ \E s \in Clients, name \in Names, amount \in Amounts : PlayCash(s, name, amount)

SpecCash == InitCash /\ [][NextCash]_vars

(***************************************************************************)
(* Spec: the sessions of Clients call register, start, bet, fold and       *)
(* adjust-balance concurrently on one room key that does not exist at      *)
(* first.  A call reads (the first read with the call itself, later reads  *)
(* as steps of their own), applies fn and writes; other calls' steps come  *)
(* between its read and its write.  NoChange is mutate given an fn that    *)
(* returns NO_CHANGE, which no room-level call does.                       *)
(***************************************************************************)
\* the values the clients bet
ClientBets == {MaxBet, AllIn}

Init ==
    /\ store = [index |-> 0, value |-> NOT_PRESENT]
    /\ calls = [s \in SeqSet(Sessions) |-> IdleCall]

\* the call of mutate, up to and including its first self.get()
Begin(s, op) ==
    /\ calls[s].pc = "idle"
    /\ WritesLeft
    /\ calls' = [calls EXCEPT ![s] =
                    [NewCall(op) EXCEPT !.pc = "put",
                                        !.index = GetResult(store).index,
                                        !.value = GetResult(store).value]]
    /\ UNCHANGED store

Register(s, name) ==
    /\ Begin(s, [name |-> "register", session_id |-> s, player_name |-> name])

Start(s) ==
    /\ Begin(s, [name |-> "start", session_id |-> s])

Bet(s, v) ==
    /\ Begin(s, [name |-> "bet", session_id |-> s, value |-> v])

Fold(s) ==
    /\ Begin(s, [name |-> "fold", session_id |-> s])

Cash(s, name, amount) ==
    /\ Begin(s, [name |-> "cash", session_id |-> s, player_name |-> name, amount |-> amount])

NoChange(s) ==
    /\ Begin(s, [name |-> "no_change", session_id |-> s])

\* self.get() at the top of the loop, after a refused write
Get(s) ==
    /\ calls[s].pc = "get"
    /\ calls' = [calls EXCEPT ![s].pc = "put",
                              ![s].index = GetResult(store).index,
                              ![s].value = GetResult(store).value]
    /\ UNCHANGED store

\* fn(value) and, unless it raised or returned NO_CHANGE, self.put(.., cas=index)
Put(s) ==
    /\ calls[s].pc = "put"
    /\ \E rnd \in Draws(calls[s].op, calls[s].value) :
          \E step \in {MutateStep(store, calls[s],
                                   [index |-> calls[s].index, value |-> calls[s].value], rnd)} :
              /\ store' = step.store
              /\ calls' = [calls EXCEPT ![s] = step.call]

\* the caller has its answer
Return(s) ==
    /\ calls[s].pc = "done"
    /\ calls' = [calls EXCEPT ![s] = IdleCall]
    /\ UNCHANGED store

Next ==
    \/ \E s \in Clients, name \in Names : Register(s, name)
    \/ \E s \in Clients : Start(s)
    \/ \E s \in Clients, v \in ClientBets : Bet(s, v)
    \/ \E s \in Clients : Fold(s)
    \/ \E s \in Clients, name \in Names, amount \in Amounts : Cash(s, name, amount)
    \/ \E s \in Clients : NoChange(s)
    \/ \E s \in Clients : Get(s)
    \/ \E s \in Clients : Put(s)
    \/ \E s \in Clients : Return(s)

Spec == Init /\ [][Next]_vars

(***************************************************************************)
(* SpecBlinds: a heads-up room of two deep stacks in which every hand ends *)
(* with a fold, played for MaxHands writes: the start and then the folds,  *)
(* each call made with no other call in flight.                            *)
(***************************************************************************)
\* the writes the store accepts in SpecBlinds
MaxHands == 22

DeepStacks == <<100, 100>>

InitBlinds ==
    /\ store = [index |-> 1, value |-> SeedRoom(DeepStacks)]
    /\ calls = [s \in SeqSet(Sessions) |-> IdleCall]

\* a whole mutate call of session s with no other call in flight
PlayHand(s, op) ==
    /\ store.index <= MaxHands
    /\ \A t \in SeqSet(Sessions) : calls[t].pc = "idle"
    /\ \E rnd \in Draws(op, store.value) :
          \E step \in {MutateStep(store, NewCall(op), GetResult(store), rnd)} :
              /\ store' = step.store
              /\ calls' = [t \in SeqSet(Sessions) |-> IF t = s THEN step.call ELSE IdleCall]

HandStart(s) ==
    /\ PlayHand(s, [name |-> "start", session_id |-> s])

HandFold(s) ==
    /\ PlayHand(s, [name |-> "fold", session_id |-> s])

NextBlinds ==
    \/ \E s \in Clients : PlayReturn(s)
    \/ \E s \in Clients : HandStart(s)
    \/ \E s \in Clients : HandFold(s)

SpecBlinds == InitBlinds /\ [][NextBlinds]_vars

(***************************************************************************)
(* SpecFill: guests register in one room one after another, each call      *)
(* made with no other call in flight; guest g comes once the guests before *)
(* it are in the room.  A guest's session id is its number, and so is its  *)
(* own name.                                                               *)
(***************************************************************************)
\* the guests that try to register
MaxGuests == 12

Guests == 1..MaxGuests

\* the names guest g registers under: its own, and the name of guest 1
GuestNames(g) == {g, 1}

InitFill ==
    /\ store = [index |-> 0, value |-> NOT_PRESENT]
    /\ calls = [g \in Guests |-> IdleCall]

\* the number of players of the stored room
Registered == IF store.value = NOT_PRESENT THEN 0 ELSE Len(store.value.players)

\* a whole register call of guest g
Join(g, name) ==
    /\ store.index <= MaxGuests
    /\ \A t \in Guests : calls[t].pc = "idle"
    /\ g <= Registered + 1
    /\ \E op \in {[name |-> "register", session_id |-> g, player_name |-> name]} :
          \E rnd \in Draws(op, store.value) :
              \E step \in {MutateStep(store, NewCall(op), GetResult(store), rnd)} :
                  /\ store' = step.store
                  /\ calls' = [t \in Guests |-> IF t = g THEN step.call ELSE IdleCall]

\* the guest has its answer
Leave(g) ==
    /\ calls[g].pc = "done"
    /\ calls' = [calls EXCEPT ![g] = IdleCall]
    /\ UNCHANGED store

NextFill ==
    \/ \E g \in Guests : \E name \in GuestNames(g) : Join(g, name)
    \/ \E g \in Guests : Leave(g)

SpecFill == InitFill /\ [][NextFill]_vars

(***************************************************************************)
(* SpecHands: calls of find_best_hand and of get_winners on their own.     *)
(* The store plays no part; calls holds the call, its argument in op and   *)
(* what it returned in ret.  A card is its number c, of value              *)
(* 12 - c \div 4 and suit c % 4 (S, H, C, D).                              *)
(***************************************************************************)
\* the most cards find_best_hand is given
MaxCards == 9

\* the most owners get_winners is given
MaxOwners == 3

\* AS AH AC AD KS KD QS QH JS XS XH
RoyalDeck == {0, 1, 2, 3, 4, 7, 8, 9, 12, 16, 17}

\* AS KH 9S 9D 8S 6H 5S 4S 3D 2S
WheelDeck == {0, 5, 20, 23, 24, 33, 36, 40, 47, 48}

CardSets ==
    {S \in (SUBSET RoyalDeck) \cup (SUBSET WheelDeck) : Cardinality(S) \in 5..MaxCards}

RECURSIVE Ascending(_)
\* the cards of S by number: highest value first, and S, H, C, D within one
Ascending(S) ==
    IF S = {} THEN <<>> ELSE <<SetMin(S)>> \o Ascending(S \ {SetMin(S)})

Reversed(seq) == [i \in 1..Len(seq) |-> seq[Len(seq) + 1 - i]]

\* the card sequences find_best_hand is called with
HandInputs == UNION {{Ascending(S), Reversed(Ascending(S))} : S \in CardSets}

\* AS JS XH 8H 5H
Board == <<0, 12, 17, 25, 37>>

\* KD QC, AH AD, KC QD, KS 6H, QS 9C
Holes == <<(<<7, 10>>), (<<1, 3>>), (<<6, 11>>), (<<4, 33>>), (<<8, 22>>)>>

\* the collections get_winners is called with: up to MaxOwners owners in
\* any order, owner k holding the board and the k-th hole cards
Showdowns ==
    LET picks == UNION {[1..n -> 1..Len(Holes)] : n \in 1..MaxOwners}
        owners == {h \in picks : \A i, j \in 1..Len(h) : i # j => h[i] # h[j]}
    IN  {[i \in 1..Len(h) |-> <<h[i], Board \o Holes[h[i]]>>] : h \in owners}

InitHands ==
    /\ store = [index |-> 0, value |-> NOT_PRESENT]
    /\ calls = [s \in SeqSet(Sessions) |-> IdleCall]

\* find_best_hand(cards)
Evaluate(s, cards) ==
    /\ calls[s].pc = "idle"
    /\ calls' = [calls EXCEPT ![s] =
                    [pc |-> "done", op |-> [name |-> "find_best_hand", cards |-> cards],
                     ret |-> find_best_hand(cards)]]
    /\ UNCHANGED store

\* get_winners(hands); ret holds the list it returned as [winners |-> list]
Compare(s, hands) ==
    /\ calls[s].pc = "idle"
    /\ calls' = [calls EXCEPT ![s] =
                    [pc |-> "done", op |-> [name |-> "get_winners", hands |-> hands],
                     ret |-> IF get_winners_raises(hands) THEN Raised
                             ELSE [winners |-> get_winners(hands)]]]
    /\ UNCHANGED store

NextHands ==
    \/ \E cards \in HandInputs : Evaluate(Sessions[1], cards)
    \/ \E hands \in Showdowns : Compare(Sessions[1], hands)
    \/ PlayReturn(Sessions[1])

SpecHands == InitHands /\ [][NextHands]_vars

(***************************************************************************)
(* Properties of mutate (Spec)                                             *)
(***************************************************************************)

\* C1: the accepted writes are totally ordered, and each stores fn applied
\* to the value the immediately preceding accepted write stored (to
\* NOT_PRESENT when there is none): whenever the entry changes, its index
\* goes up by one and its new value is fn, of a call that is at its put,
\* applied to the entry's value just before the write.  No accepted update is
\* lost and none is computed from a stale value.
C1_WritesSerialized ==
    [][store' # store =>
          /\ store'.index = store.index + 1
          /\ \E s \in Clients :
                /\ calls[s].pc = "put"
                /\ calls'[s].writes = calls[s].writes + 1
                /\ \E rnd \in Draws(calls[s].op, store.value) :
                      store'.value = Fn(calls[s].op, store.value, rnd)]_vars

\* C1 witness: a call whose first put was refused, because another call's
\* write came between, has read again and had its put accepted
C1_RetriedAndAccepted ==
    \E s \in Clients :
        /\ calls[s].pc = "done"
        /\ calls[s].reads >= 2
        /\ calls[s].writes = 1
        /\ store.value = calls[s].ret

\* C2: a call of mutate causes at most one accepted write and returns as soon
\* as its put is accepted, with the value it wrote; a call whose fn returns
\* NO_CHANGE writes nothing and returns the value it read.
C2_AtMostOneWrite ==
    \A s \in Clients :
        calls[s].pc # "idle" =>
            /\ calls[s].writes <= 1
            /\ calls[s].writes = 1 =>
                  /\ calls[s].pc = "done"
                  /\ calls[s].ret \notin {Raised, NO_CHANGE}
                  /\ \E rnd \in Draws(calls[s].op, calls[s].value) :
                        calls[s].ret = Fn(calls[s].op, calls[s].value, rnd)
            /\ (calls[s].op.name = "no_change" /\ calls[s].pc = "done") =>
                  /\ calls[s].writes = 0
                  /\ calls[s].ret = calls[s].value

\* C2 witness: a call whose fn returned NO_CHANGE has returned the room it
\* read, and another call has returned after its one accepted write
C2_NoChangeAndOneWrite ==
    \E s, t \in Clients :
        /\ calls[s].pc = "done"
        /\ calls[s].op.name = "no_change"
        /\ calls[s].value # NOT_PRESENT
        /\ calls[s].ret = calls[s].value
        /\ calls[t].pc = "done"
        /\ calls[t].writes = 1


(***************************************************************************)
(* Properties of the room-level calls (SpecPlay).  In SpecPlay a call that *)
(* has returned is on record in calls: value is the room it read and ret   *)
(* the room it wrote and returned, Raised when it raised.                  *)
(***************************************************************************)
Returned(s) == calls[s].pc = "done" /\ calls[s].ret # Raised

NextToAct(room) == get_next_to_act(room.game, get_balances(room))

\* the call of s was a bet or fold that reached the showdown
ShowedDown(s) ==
    /\ calls[s].pc = "done"
    /\ calls[s].op.name \in {"bet", "fold"}
    /\ Deals(calls[s].op, calls[s].value)

\* the room as the call handed it to pay_winners
Acted(call) ==
    IF call.op.name = "bet"
    THEN GameBet(call.value, call.op.session_id, call.op.value)
    ELSE GameFold(call.value, call.op.session_id)

Settled(room) == [room EXCEPT !.game = BettingLoop(room.game, get_balances(room)).game]

AtShowdown(call) == Settled(Acted(call))

\* what the payout credited to a session
Payout(paid, session_id) ==
    IF KeyIdx(paid, session_id) = 0 THEN 0 ELSE paid[KeyIdx(paid, session_id)].payout

TotalPayout(paid) == SeqSum([k \in 1..Len(paid) |-> paid[k].payout])

RoundBets(game) == SeqSum([i \in 1..Len(game.players) |-> game.players[i].bet])

EligibilityOf(game, session_id) == game.players[KeyIdx(game.players, session_id)].eligibility

\* C3 (as the specification states it): once a room-level call has returned,
\* the persisted room has no live Game or its Game has a player next to act.
C3_PersistedRoomSettled ==
    \A s \in SeqSet(Sessions) :
        Returned(s) => \/ store.value.game = None
                       \/ NextToAct(store.value) # None

\* C4 (as the specification states it): a bet or fold by a session that is
\* not the one get_next_to_act names leaves the persisted room as it was.
C4_OutOfTurnIgnored ==
    \A s \in SeqSet(Sessions) :
        ( /\ calls[s].pc = "done"
          /\ calls[s].op.name \in {"bet", "fold"}
          /\ calls[s].value.game # None
          /\ NextToAct(calls[s].value) # <<s>> )
        => store.value = calls[s].value

Conserves(before, out) ==
    /\ TotalPayout(out.paid) + out.pot = before.game.pot
    /\ \A i \in 1..Len(before.players) :
          out.players[i].balance
            = before.players[i].balance + Payout(out.paid, before.players[i].session_id)

RecordsPayout(ret, out) == ret # Raised => ret.log[Len(ret.log)].players = out.paid

PayoutConserves(call, before, out) ==
    out # Raised => Conserves(before, out) /\ RecordsPayout(call.ret, out)

\* C5: in every payout the payouts credited to the players' balances and
\* the pot left afterwards add up to the pot before the payout, and the
\* payouts credited are the payouts the history records.
C5_PayoutConserves ==
    \A s \in SeqSet(Sessions) :
        ShowedDown(s) =>
            PayoutConserves(calls[s], AtShowdown(calls[s]), PayOutcome(AtShowdown(calls[s])))

PaidWithRemainder(out) == out # Raised /\ out.pot > 0 /\ Len(out.paid) >= 2

\* C5 witness: a payout that paid two players and left chips in the pot
C5_SplitWithRemainder ==
    \E s \in SeqSet(Sessions) :
        ShowedDown(s) /\ PaidWithRemainder(PayOutcome(AtShowdown(calls[s])))

\* three players all-in for 5, 10 and 20 chips
ThreeAllIn(room) ==
    /\ Len(room.game.players) = 3
    /\ room.game.pot = 35
    /\ EligibilityOf(room.game, "a") = <<15>>
    /\ EligibilityOf(room.game, "b") = <<25>>
    /\ EligibilityOf(room.game, "c") = <<35>>

SoleWinnersPaidEligibility(out) ==
    \A r \in 1..Len(out.rounds) :
        Len(out.rounds[r].winners) = 1 =>
            out.rounds[r].amount =
                out.rounds[r].contenders[KeyIdx(out.rounds[r].contenders,
                                                out.rounds[r].winners[1])].eligibility

SidePots(out) ==
    /\ out # Raised
    /\ Payout(out.paid, "a") <= 15
    /\ Payout(out.paid, "a") + Payout(out.paid, "b") <= 25
    /\ Payout(out.paid, "c") >= 10
    /\ SoleWinnersPaidEligibility(out)

\* C6 (as the specification states it): with stacks 5, 10 and 20 all-in the
\* 5-chip player is paid at most the main pot of 15, the next 10 chips go to
\* the 10- and 20-chip players only, the 10 chips nobody matched return to
\* the 20-chip player, and a sole winner is paid its eligibility.
C6_SidePots ==
    \A s \in SeqSet(Sessions) :
        (ShowedDown(s) /\ ThreeAllIn(AtShowdown(calls[s])))
        => SidePots(PayOutcome(AtShowdown(calls[s])))

CarriesRemainder(next, out) ==
    (out.pot > 0 /\ next.game # None) => next.game.pot = out.pot + RoundBets(next.game)

\* C7 (as the specification states it): when a payout stops with chips left
\* in the pot, the next hand's pot after the blinds is that remainder plus
\* the blinds posted.
C7_RemainderCarried ==
    \A s \in SeqSet(Sessions) :
        (ShowedDown(s) /\ calls[s].ret # Raised)
        => CarriesRemainder(calls[s].ret, PayOutcome(AtShowdown(calls[s])))

PaidEarlier(rounds, r, session_id) ==
    \E q \in 1..(r - 1) : rounds[q].amount > 0 /\ session_id \in SeqSet(rounds[q].winners)

HandOf(paid, session_id) == paid[KeyIdx(paid, session_id)].hand

\* the sole contender of a round is paid its whole remaining eligibility
SolePaidWhole(out) ==
    \A r \in 1..Len(out.rounds) :
        Len(out.rounds[r].contenders) = 1 =>
            /\ out.rounds[r].amount = out.rounds[r].contenders[1].eligibility
            /\ KeyIdx(out.paid, out.rounds[r].contenders[1].session_id) # 0

\* hole cards are recorded only for a winner of a round of several contenders
ShownOnlyWhenContested(out) ==
    \A k \in 1..Len(out.paid) :
        out.paid[k].hand # None =>
            \E r \in 1..Len(out.rounds) :
                /\ Len(out.rounds[r].contenders) > 1
                /\ out.rounds[r].amount > 0
                /\ out.paid[k].session_id \in SeqSet(out.rounds[r].winners)

SoleNotShown(out) ==
    \A r \in 1..Len(out.rounds) :
        Len(out.rounds[r].contenders) = 1 =>
            HandOf(out.paid, out.rounds[r].contenders[1].session_id) = None

SoleNotShownUnlessPaidEarlier(out) ==
    \A r \in 1..Len(out.rounds) :
        (Len(out.rounds[r].contenders) = 1
            /\ ~PaidEarlier(out.rounds, r, out.rounds[r].contenders[1].session_id))
        => HandOf(out.paid, out.rounds[r].contenders[1].session_id) = None

SoleContender(out) ==
    out # Raised => SolePaidWhole(out) /\ SoleNotShown(out) /\ ShownOnlyWhenContested(out)

SoleContenderAmended(out) ==
    out # Raised => /\ SolePaidWhole(out)
                    /\ SoleNotShownUnlessPaidEarlier(out)
                    /\ ShownOnlyWhenContested(out)

\* C8 (as the specification states it): the sole contender of a payout
\* round is paid its whole remaining eligibility and the record stores no
\* hand for it; hole cards are recorded only for winners of rounds with more
\* than one contender.
C8_SoleContenderNotShown ==
    \A s \in SeqSet(Sessions) :
        ShowedDown(s) => SoleContender(PayOutcome(AtShowdown(calls[s])))

\* C8 (amended): the sole contender of a payout round is paid its whole
\* remaining eligibility, and the record stores no hand for it unless an
\* earlier round of the same payout, with more than one contender, already
\* paid it and recorded its hole cards; hole cards are recorded only for
\* winners of rounds with more than one contender.
C8_SoleContenderAmended ==
    \A s \in SeqSet(Sessions) :
        ShowedDown(s) => SoleContenderAmended(PayOutcome(AtShowdown(calls[s])))

SoleAfterSplit(out) ==
    /\ out # Raised
    /\ \E r \in 1..Len(out.rounds) :
          /\ Len(out.rounds[r].contenders) = 1
          /\ PaidEarlier(out.rounds, r, out.rounds[r].contenders[1].session_id)
          /\ HandOf(out.paid, out.rounds[r].contenders[1].session_id) # None

\* C8 witness: a payout whose last round had one contender, whom an earlier
\* round had paid as one of two tied winners
C8_SoleAfterSplit ==
    \E s \in SeqSet(Sessions) :
        ShowedDown(s) /\ SoleAfterSplit(PayOutcome(AtShowdown(calls[s])))

\* heads-up, small blind 1, balances 100/100, the blinds just posted
FreshHeadsUp(room) ==
    /\ room.game # None
    /\ Len(room.players) = 2
    /\ Len(room.game.players) = 2
    /\ room.small_blind = 1
    /\ room.log = <<>>
    /\ room.game.stage = PRE_FLOP
    /\ room.game.pot = 3
    /\ room.game.players[1].bet = 2
    /\ room.game.players[2].bet = 1
    /\ \A i \in 1..2 : room.game.players[i].has_option
    /\ \A i \in 1..2 : get_balances(room)[room.game.players[i].session_id]
                          = 100 - room.game.players[i].bet

\* the same hand after the small blind bet 2
CalledHeadsUp(room) ==
    /\ room.game # None
    /\ Len(room.players) = 2
    /\ Len(room.game.players) = 2
    /\ room.log = <<>>
    /\ room.game.stage = PRE_FLOP
    /\ room.game.pot = 4
    /\ \A i \in 1..2 : room.game.players[i].bet = 2
    /\ \A i \in 1..2 : get_balances(room)[room.game.players[i].session_id] = 98
    /\ room.game.players[1].has_option
    /\ ~room.game.players[2].has_option

\* the same hand on the flop
FlopHeadsUp(room, before) ==
    /\ room # Raised
    /\ room.game # None
    /\ room.game.stage = FLOP
    /\ room.game.pot = 4
    /\ room.game.deck = before.game.deck
    /\ room.log = <<>>
    /\ \A i \in 1..2 : room.game.players[i].bet = 0
    /\ \A i \in 1..2 : room.game.players[i].session_id = before.game.players[i].session_id

HeadsUpCall(call, s) ==
    /\ call.op.name = "start" /\ call.value = SeedRoom(<<100, 100>>)
       => /\ call.ret # Raised => FreshHeadsUp(call.ret)
          /\ call.ret # Raised
                => NextToAct(call.ret) = <<call.ret.game.players[2].session_id>>
    /\ ( /\ call.op.name = "bet" /\ call.op.value = 2
         /\ FreshHeadsUp(call.value)
         /\ s = call.value.game.players[2].session_id )
       => /\ call.ret # Raised
          /\ CalledHeadsUp(call.ret)
          /\ NextToAct(call.ret) = <<call.value.game.players[1].session_id>>
    /\ ( /\ call.op.name = "bet" /\ call.op.value = 2
         /\ CalledHeadsUp(call.value)
         /\ s = call.value.game.players[1].session_id )
       => FlopHeadsUp(call.ret, call.value)

\* C9: heads-up with small blind 1 and balances 100/100 the dealer, last in
\* act order, posts 1 and the other player 2, and the small blind is first
\* to act; after the small blind bets 2 the stage is still PRE_FLOP and the
\* big blind is next to act; after the big blind bets 2 the stage is FLOP,
\* the pot 4 and both round bets 0.
C9_HeadsUpOption ==
    \A s \in SeqSet(Sessions) : calls[s].pc = "done" => HeadsUpCall(calls[s], s)

\* C9 witness: the big blind has checked its option and the hand is on the flop
C9_BigBlindChecked ==
    \E s \in SeqSet(Sessions) :
        /\ calls[s].pc = "done"
        /\ calls[s].op.name = "bet" /\ calls[s].op.value = 2
        /\ CalledHeadsUp(calls[s].value)
        /\ s = calls[s].value.game.players[1].session_id
        /\ FlopHeadsUp(calls[s].ret, calls[s].value)

Dealt(room) ==
    /\ room.game # None
    /\ room.game.stage = PRE_FLOP
    /\ Keys(room.game.players) = Keys(room.players)
    /\ room.game.pot > 0
    /\ room.game.pot = RoundBets(room.game)

\* C10 (as the specification states it): a start that returns successfully
\* on a room with no live Game and at least two registered players leaves a
\* live Game at PRE_FLOP that contains every registered player, the blinds
\* posted.
C10_StartDeals ==
    \A s \in SeqSet(Sessions) :
        ( /\ Returned(s)
          /\ calls[s].op.name = "start"
          /\ calls[s].value.game = None
          /\ Len(calls[s].value.players) >= 2 )
        => Dealt(calls[s].ret)

(***************************************************************************)
(* Properties of start, register and adjust-balance                        *)
(***************************************************************************)
\* the call of s is over, by return or by raise
Over(s) == calls[s].pc = "done"

\* the call of s raised and the stored entry is the one it read
RefusedUnchanged(s) ==
    /\ calls[s].ret = Raised
    /\ calls[s].writes = 0
    /\ store.value = calls[s].value
    /\ store.index = calls[s].index

\* C11: a start by a session that is not the admin, or on a room that has a
\* live Game, or on a room with fewer than two registered players, raises
\* and leaves the stored room as it was.
C11_StartRefused ==
    \A s \in SeqSet(Sessions) :
        ( /\ Over(s)
          /\ calls[s].op.name = "start"
          /\ \/ calls[s].value.admin # <<s>>
             \/ calls[s].value.game # None
             \/ Len(calls[s].value.players) < 2 )
        => RefusedUnchanged(s)

\* the start of the admin of a room of two or more players was refused
\* because a Game is live
C11_AdminRefusedOnLiveGame ==
    \E s \in SeqSet(Sessions) :
        /\ Over(s)
        /\ calls[s].op.name = "start"
        /\ calls[s].value.admin = <<s>>
        /\ calls[s].value.game # None
        /\ Len(calls[s].value.players) >= 2
        /\ RefusedUnchanged(s)

\* no two players of the room have the same name
UniqueNames(room) ==
    \A i, j \in 1..Len(room.players) :
        i # j => room.players[i].name # room.players[j].name

\* another session than session_id has the name in the room
NameTaken(room, session_id, name) ==
    /\ room # NOT_PRESENT
    /\ \E k \in 1..Len(room.players) :
          room.players[k].session_id # session_id /\ room.players[k].name = name

Registering(s) == Over(s) /\ calls[s].op.name = "register"

\* C12: the names of the stored room are pairwise distinct; a register whose
\* name another session has raises without writing; of two register calls
\* for one name that are both over, exactly one raised.
C12_UniqueNames ==
    /\ store.value # NOT_PRESENT => UniqueNames(store.value)
    /\ \A s \in Clients :
          (Registering(s) /\ NameTaken(calls[s].value, s, calls[s].op.player_name))
          => (calls[s].ret = Raised /\ calls[s].writes = 0)
    /\ \A s, t \in Clients :
          ( /\ s # t
            /\ Registering(s) /\ Registering(t)
            /\ calls[s].op.player_name = calls[t].op.player_name )
          => (calls[s].ret = Raised) # (calls[t].ret = Raised)

\* two sessions read the missing room and registered one name: one created
\* the room, the other was refused the write, read again and raised
C12_SameNameRace ==
    \E s, t \in Clients :
        /\ s # t
        /\ Registering(s) /\ Registering(t)
        /\ calls[s].op.player_name = calls[t].op.player_name
        /\ calls[s].ret # Raised /\ calls[s].value = NOT_PRESENT
        /\ calls[t].ret = Raised /\ calls[t].reads = 2
        /\ Len(store.value.players) = 1

\* C13 (as the specification states it): the stored room never has more
\* than 10 players, and a register by a session that is not in a room of 10
\* players raises without writing.
C13_AtMostTenPlayers ==
    /\ Registered <= RoomLimit
    /\ \A g \in DOMAIN calls :
          ( /\ Registering(g)
            /\ calls[g].value # NOT_PRESENT
            /\ Len(calls[g].value.players) = RoomLimit
            /\ KeyIdx(calls[g].value.players, g) = 0 )
          => (calls[g].ret = Raised /\ calls[g].writes = 0)

\* the step creates the room, and the session whose call wrote it is the
\* admin and the only player
CreatorIsAdmin ==
    (store.value = NOT_PRESENT /\ store'.value # NOT_PRESENT)
    => \E s \in Clients :
          /\ calls[s].pc = "put" /\ calls'[s].pc = "done"
          /\ calls[s].op.name = "register"
          /\ store'.value.admin = <<s>>
          /\ Keys(store'.value.players) = {s}

\* the step leaves the admin of the room the same, and a registered player
AdminKept ==
    (store'.value # NOT_PRESENT)
    => /\ store'.value.admin # None
       /\ store'.value.admin[1] \in Keys(store'.value.players)
       /\ store.value # NOT_PRESENT => store'.value.admin = store.value.admin

\* every session whose register call is over without a raise is in the room
RegisteredStay ==
    \A s \in Clients :
        (calls'[s].pc = "done" /\ calls'[s].op.name = "register" /\ calls'[s].ret # Raised)
        => s \in Keys(store'.value.players)

\* C14: the session whose register creates the room becomes its admin, the
\* admin is the same after every later step and is a registered player, and
\* the sessions whose register calls succeed, concurrent or not, are all in
\* the room, under that one admin.
C14_CreatorStaysAdmin == [][CreatorIsAdmin /\ AdminKept /\ RegisteredStay]_vars

\* two sessions registered into the missing room at once: the one whose
\* write created it is the admin, the other was refused the write, read
\* again and joined
C14_BothJoinedOneAdmin ==
    \E s, t \in Clients :
        /\ s # t
        /\ Registering(s) /\ Registering(t)
        /\ calls[s].ret # Raised /\ calls[s].value = NOT_PRESENT
        /\ calls[t].ret # Raised /\ calls[t].reads = 2
        /\ store.value.admin = <<s>>
        /\ Keys(store.value.players) = {s, t}

Adjusting(s) == Over(s) /\ calls[s].op.name = "cash" /\ calls[s].value # NOT_PRESENT

\* after is before with amount added to the balance of the player of that
\* name, and nothing else different
OnlyBalanceAdded(before, after, name, amount) ==
    /\ after # Raised
    /\ after.game = before.game
    /\ after.admin = before.admin
    /\ after.log = before.log
    /\ after.small_blind = before.small_blind
    /\ Len(after.players) = Len(before.players)
    /\ \A k \in 1..Len(before.players) :
          /\ after.players[k].session_id = before.players[k].session_id
          /\ after.players[k].name = before.players[k].name
          /\ after.players[k].balance =
                before.players[k].balance
                    + (IF before.players[k].name = name THEN amount ELSE 0)

\* C15: an adjust-balance by a session that is not the admin raises and
\* writes nothing; one by the admin for the name of a player writes the room
\* it read with the amount added to that player's balance, the Game, the
\* other balances, the admin and the log as they were.
C15_AdjustBalance ==
    \A s \in Clients :
        Adjusting(s) =>
            IF calls[s].value.admin # <<s>>
            THEN calls[s].ret = Raised /\ calls[s].writes = 0
            ELSE get_player_by_name(calls[s].value, calls[s].op.player_name) # 0
                 => OnlyBalanceAdded(calls[s].value, calls[s].ret,
                                     calls[s].op.player_name, calls[s].op.amount)

\* the admin topped up another player while a Game was live, and the
\* stored room is the one the call returned
C15_AdminToppedUp ==
    \E s \in Clients :
        /\ Adjusting(s)
        /\ calls[s].value.admin = <<s>>
        /\ calls[s].value.game # None
        /\ calls[s].value.log # <<>>
        /\ get_player_by_name(calls[s].value, calls[s].op.player_name)
                \notin {0, KeyIdx(calls[s].value.players, s)}
        /\ calls[s].ret # Raised
        /\ store.value = calls[s].ret

(***************************************************************************)
(* Properties of the blind schedule (SpecBlinds)                           *)
(***************************************************************************)
\* the call of s dealt a new hand
DealtHand(s) ==
    /\ Over(s)
    /\ calls[s].ret # Raised
    /\ Deals(calls[s].op, calls[s].value)
    /\ calls[s].ret.game # None

\* the small blind of room after is the one of the schedule for the hands
\* in its log, not below the one of before, and twice the one of before
\* when the hand just completed is a multiple of the interval
OnSchedule(before, after) ==
    LET k == Len(after.log)
        N == after.blind_interval
    IN  N > 0 =>
            /\ after.small_blind = 2 ^ (k \div N)
            /\ after.small_blind >= before.small_blind
            /\ (k > 0 /\ k % N = 0) => after.small_blind = 2 * before.small_blind

\* C16: every new hand is dealt with the small blind 2^floor(k/N), k the
\* number of completed hands in the log and N > 0 the blind interval; the
\* small blind never goes down and doubles with every N-th completed hand.
C16_BlindSchedule ==
    \A s \in Clients : DealtHand(s) => OnSchedule(calls[s].value, calls[s].ret)

\* the twentieth hand was completed by a fold, and the hand dealt after it
\* has the small blind 4, up from 2, and the blinds 4 and 8 in the pot
C16_SecondDoubling ==
    \E s \in Clients :
        /\ DealtHand(s)
        /\ calls[s].op.name = "fold"
        /\ Len(calls[s].ret.log) = 20
        /\ calls[s].value.small_blind = 2
        /\ calls[s].ret.small_blind = 4
        /\ calls[s].ret.game.pot = 12

(***************************************************************************)
(* Properties of mutate when fn raises (Spec)                              *)
(***************************************************************************)
\* the step is the round of the loop of s in which fn raised
RaisedIn(s) ==
    /\ calls[s].pc = "put"
    /\ calls'[s].pc = "done"
    /\ calls'[s].ret = Raised

\* C17: the round of mutate in which fn raises, the first or a later one,
\* leaves the stored value and its index as they were, and the call has
\* written nothing.
C17_RaiseWritesNothing ==
    [][\A s \in Clients : RaisedIn(s) => (store' = store /\ calls'[s].writes = 0)]_vars

\* a register, start or adjust-balance was refused its write, read again and
\* raised, and the stored entry is the one it read last
C17_RaisedOnRetry ==
    \E s \in Clients :
        /\ Over(s)
        /\ calls[s].op.name \in {"register", "start", "cash"}
        /\ calls[s].ret = Raised
        /\ calls[s].reads = 2
        /\ calls[s].writes = 0
        /\ store = [index |-> calls[s].index, value |-> calls[s].value]

(***************************************************************************)
(* Properties of the hand evaluator (SpecHands)                            *)
(***************************************************************************)
Comparing(s) == Over(s) /\ calls[s].op.name = "get_winners"

OwnersOf(result) == {result[i][1] : i \in 1..Len(result)}

\* the sort key of the hand of one <<owner, cards>> pair, evaluated alone
KeyOf(hand) == sort_key(find_best_hand(hand[2]))

\* no hand of the collection has a greater key than the i-th
TiesMax(hands, i) ==
    \A j \in 1..Len(hands) : ~KeyLess(KeyOf(hands[i]), KeyOf(hands[j]))

\* C18: get_winners of a non-empty collection returns a non-empty list, the
\* owners in it are exactly the owners whose evaluated hand no other hand
\* beats on (category, tie-break values), and every other order of the
\* collection gives the same set of owners.
C18_WinnersTieMax ==
    \A s \in SeqSet(Sessions) :
        (Comparing(s) /\ calls[s].op.hands # <<>>) =>
            /\ calls[s].ret # Raised
            /\ calls[s].ret.winners # <<>>
            /\ OwnersOf(calls[s].ret.winners) =
                  {calls[s].op.hands[i][1] : i \in {j \in 1..Len(calls[s].op.hands) :
                                                        TiesMax(calls[s].op.hands, j)}}
            /\ \A other \in ShuffleOrders(calls[s].op.hands) :
                  OwnersOf(get_winners(other)) = OwnersOf(calls[s].ret.winners)

\* of three owners two tie for the best hand with straights of different
\* suits, and the third, given first, is not returned
C18_SplitOfThree ==
    \E s \in SeqSet(Sessions) :
        /\ Comparing(s)
        /\ Len(calls[s].op.hands) = 3
        /\ calls[s].ret # Raised
        /\ Len(calls[s].ret.winners) = 2
        /\ calls[s].ret.winners[1][2].value = STRAIGHT
        /\ calls[s].ret.winners[1][2].cards # calls[s].ret.winners[2][2].cards
        /\ calls[s].op.hands[1][1] \notin OwnersOf(calls[s].ret.winners)

Evaluating(s) == Over(s) /\ calls[s].op.name = "find_best_hand"

\* the rank of a set S of five cards by the rules of poker
ValuesOf(S) == {CardValue(c) : c \in S}

CountOf(S, v) == Cardinality({c \in S : CardValue(c) = v})

TopCount(S) == SetMax({CountOf(S, v) : v \in ValuesOf(S)})

IsFlush(S) == Cardinality({CardSuit(c) : c \in S}) = 1

\* 5-4-3-2-A
IsWheel(S) == ValuesOf(S) = {3, 2, 1, 0, 12}

IsStraight(S) ==
    \/ IsWheel(S)
    \/ Cardinality(ValuesOf(S)) = 5 /\ SetMax(ValuesOf(S)) - SetMin(ValuesOf(S)) = 4

CategoryOf(S) ==
    LET distinct == Cardinality(ValuesOf(S))
    IN  CASE IsStraight(S) /\ IsFlush(S) -> STRAIGHT_FLUSH
          [] OTHER ->
        CASE TopCount(S) = 4 -> QUAD
          [] TopCount(S) = 3 /\ distinct = 2 -> FULL_HOUSE
          [] OTHER ->
        CASE IsFlush(S) -> FLUSH
          [] IsStraight(S) -> STRAIGHT
          [] TopCount(S) = 3 -> SET
          [] TopCount(S) = 2 /\ distinct = 3 -> TWO_PAIRS
          [] TopCount(S) = 2 -> PAIR
          [] OTHER -> CARD

RECURSIVE TieBreak(_, _)
\* the values of V as often as S has them: the values S has most often
\* first, and of those the highest first
TieBreak(S, V) ==
    IF V = {} THEN <<>>
    ELSE LET v == CHOOSE x \in V : \A y \in V :
                        \/ CountOf(S, x) > CountOf(S, y)
                        \/ CountOf(S, x) = CountOf(S, y) /\ x >= y
         IN  [i \in 1..CountOf(S, v) |-> v] \o TieBreak(S, V \ {v})

RankOf(S) ==
    <<CategoryOf(S), IF IsWheel(S) THEN <<3, 2, 1, 0, 12>> ELSE TieBreak(S, ValuesOf(S))>>

\* the greatest rank of the hands of five of the cards
BestRank(cards) ==
    LET ranks == {RankOf(S) : S \in {T \in SUBSET SeqSet(cards) : Cardinality(T) = 5}}
    IN  CHOOSE r \in ranks : \A q \in ranks : ~KeyLess(r, q)

\* C19 (as the specification states it): find_best_hand of five to nine
\* cards returns a hand, and its category and tie-break values are those of
\* the highest-ranking hand of five of the cards.
C19_BestOfFive ==
    \A s \in SeqSet(Sessions) :
        Evaluating(s) =>
            /\ calls[s].ret # Raised
            /\ sort_key(calls[s].ret) = BestRank(calls[s].op.cards)

\* seq with its first k cards moved to the end
Rotated(seq, k) == [i \in 1..Len(seq) |-> seq[((i + k - 1) % Len(seq)) + 1]]

\* seq with the cards at k and k + 1 exchanged
Swapped(seq, k) == [seq EXCEPT ![k] = seq[k + 1], ![k + 1] = seq[k]]

\* permutations of seq: the reverse, the rotations and the exchanges of two
\* neighbours
Rearranged(seq) ==
    {Reversed(seq)} \cup {Rotated(seq, k) : k \in 1..(Len(seq) - 1)}
                    \cup {Swapped(seq, k) : k \in 1..(Len(seq) - 1)}

\* both raised, or both are hands of one category and the same values in
\* the same order
SameRank(h, g) ==
    IF h = Raised THEN g = Raised
    ELSE g # Raised /\ sort_key(g) = sort_key(h)

Playing == store.value.game # None

\* the players of game that are not folded and have chips, by index
LiveIn(room) ==
    {i \in 1..Len(room.game.players) :
        /\ room.game.players[i].eligibility # None
        /\ room.players[KeyIdx(room.players, room.game.players[i].session_id)].balance # 0}

HighBet(game) == SetMax({game.players[i].bet : i \in 1..Len(game.players)})

\* the live players that have bet less than the highest bet, in the order
\* of the rotation that starts just after the first highest bettor
BehindInRotation(room) ==
    LET game == room.game
        n == Len(game.players)
        first == SetMin({i \in 1..n : game.players[i].bet = HighBet(game)})
        turn(i) == (i - first - 1) % n
        behind == {i \in LiveIn(room) : game.players[i].bet < HighBet(game)}
    IN  IF behind = {} THEN 0
        ELSE CHOOSE i \in behind : \A j \in behind : turn(i) <= turn(j)

\* the live players that still have the option
WithOption(room) == {i \in LiveIn(room) : room.game.players[i].has_option}

\* C21 (as the specification states it): the next to act of the stored Game
\* is the first player, in the rotation from just after the highest bettor,
\* who is live and behind or, the live bets being equal, has the option;
\* none exactly when there is no such player.
C21_ScanFromHighBettor ==
    Playing => NextToAct(store.value)
                  = NextInRotation(store.value.game, get_balances(store.value))

\* C21 (amended): the next to act of the stored Game is the first live
\* player behind the highest bet in the rotation from just after the highest
\* bettor; if there is none and at least two players are live, the first
\* live player in act order that has the option; otherwise none.
C21_BehindThenOption ==
    Playing =>
        NextToAct(store.value) =
            IF BehindInRotation(store.value) # 0
            THEN <<store.value.game.players[BehindInRotation(store.value)].session_id>>
            ELSE IF Cardinality(LiveIn(store.value)) >= 2 /\ WithOption(store.value) # {}
            THEN <<store.value.game.players[SetMin(WithOption(store.value))].session_id>>
            ELSE None

\* three live players after the flop, nobody has bet: the first in act
\* order is next, who is also the highest bettor the rotation starts after
C21_FirstToActAfterFlop ==
    /\ Playing
    /\ store.value.game.stage = FLOP
    /\ Cardinality(LiveIn(store.value)) = 3
    /\ HighBet(store.value.game) = 0
    /\ NextToAct(store.value) = <<store.value.game.players[1].session_id>>
    /\ NextInRotation(store.value.game, get_balances(store.value))
          = <<store.value.game.players[2].session_id>>

\* the call of s was a bet by the player to act
BetInTurn(s) ==
    /\ Over(s)
    /\ calls[s].op.name = "bet"
    /\ calls[s].value.game # None
    /\ NextToAct(calls[s].value) = <<s>>

BalanceOf(room, session_id) == room.players[KeyIdx(room.players, session_id)].balance

\* C22 (as the specification states it): a bet by the player to act for
\* less than the highest round bet either leaves the room as it was or
\* leaves the bettor with a balance of zero.
C22_BelowTargetOnlyAllIn ==
    \A s \in SeqSet(Sessions) :
        (BetInTurn(s) /\ calls[s].op.value < HighBet(calls[s].value.game))
        => \/ Acted(calls[s]) = calls[s].value
           \/ BalanceOf(Acted(calls[s]), s) = 0

\* the call of s was a bet or fold on a live Game after which nobody was
\* next to act: the betting round settled
SettledRound(s) ==
    /\ Over(s)
    /\ calls[s].op.name \in {"bet", "fold"}
    /\ calls[s].value.game # None
    /\ calls[s].ret # Raised
    /\ NextToAct(Acted(calls[s])) = None

\* the round bets of game strictly below the bet of player i, summed
BetsBelow(game, i) ==
    SumBets(game.players, {j \in 1..Len(game.players) : game.players[j].bet < game.players[i].bet})

\* the number of round bets of game that are at least the bet of player i
BetsAtLeast(game, i) ==
    Cardinality({j \in 1..Len(game.players) : game.players[j].bet >= game.players[i].bet})

\* after is before with the round settled
Apportioned(before, after) ==
    /\ Len(after.players) = Len(before.players)
    /\ \A i \in 1..Len(before.players) :
          /\ after.players[i].session_id = before.players[i].session_id
          /\ after.players[i].bet = 0
          /\ after.players[i].has_option
          /\ after.players[i].eligibility =
                IF before.players[i].eligibility = None THEN None
                ELSE <<before.players[i].eligibility[1] + BetsBelow(before, i)
                           + before.players[i].bet * BetsAtLeast(before, i)>>

\* the call of s settled one round and the hand went on to the next stage
OneRoundOn(s) ==
    /\ SettledRound(s)
    /\ ~Deals(calls[s].op, calls[s].value)
    /\ calls[s].ret.game.stage = calls[s].value.game.stage + 1

\* C23: when a betting round settles, every player that is not folded gains
\* in eligibility the round bets strictly below its own plus its own bet
\* times the number of round bets at least its own, folded players' bets
\* counted; folded players stay folded; all round bets are zero and all
\* option flags true afterwards.  The Game a call returns after one settled
\* round has exactly these players.
C23_Apportioned ==
    \A s \in SeqSet(Sessions) :
        /\ SettledRound(s) =>
              Apportioned(Acted(calls[s]).game, _finalize_betting(Acted(calls[s]).game))
        /\ OneRoundOn(s) =>
              Apportioned(Acted(calls[s]).game, calls[s].ret.game)

\* a round of three settled with unequal bets, one of them a folded
\* player's, and the hand went on
C23_FoldedBetCounted ==
    \E s \in SeqSet(Sessions) :
        /\ OneRoundOn(s)
        /\ \E i, j \in 1..Len(calls[s].value.game.players) :
              /\ Acted(calls[s]).game.players[i].eligibility = None
              /\ Acted(calls[s]).game.players[i].bet > 0
              /\ Acted(calls[s]).game.players[j].bet > Acted(calls[s]).game.players[i].bet
              /\ calls[s].ret.game.players[j].eligibility = <<5>>

\* the stage of the stored Game over one step: within a hand it does not go
\* down and is at most RIVER; a Game that is new, after a start or after a
\* completed hand, is at PRE_FLOP
StageStep ==
    (store'.value.game # None) =>
        IF store.value.game # None /\ Len(store'.value.log) = Len(store.value.log)
        THEN /\ store'.value.game.stage >= store.value.game.stage
             /\ store'.value.game.stage <= RIVER
        ELSE store'.value.game.stage = PRE_FLOP

NotFolded(game) == {i \in 1..Len(game.players) : game.players[i].eligibility # None}

\* the call completed a hand: the log has one more CompletedGame
HandLogged(call) == Len(call.ret.log) = Len(call.value.log) + 1

\* the stage of the showdown, read off the community cards in the log
ShownStage(call) ==
    LET shown == Len(call.ret.log[Len(call.ret.log)].community_cards)
    IN  CHOOSE stage \in PRE_FLOP..RIVER : Len(community_cards([stage |-> stage,
                                                players |-> call.value.game.players,
                                                deck |-> call.value.game.deck])) = shown

\* what a bet or fold on a live Game did to the stage
StageOutcome(call) ==
    LET before == call.value.game
        acted == Acted(call)
    IN  IF NextToAct(acted) # None
        THEN \* the round goes on
             /\ ~HandLogged(call)
             /\ call.ret.game.stage = before.stage
        ELSE IF Cardinality(NotFolded(acted.game)) < 2 \/ before.stage = RIVER
        THEN \* showdown at the settled stage
             /\ HandLogged(call)
             /\ ShownStage(call) = before.stage
        ELSE IF HandLogged(call)
        THEN \* nobody could act in the later rounds: showdown after the river
             ShownStage(call) = RIVER
        ELSE \* the next stage, with a player to act
             /\ call.ret.game.stage = before.stage + 1
             /\ NextToAct(call.ret) # None

StageOutcomes ==
    \A s \in SeqSet(Sessions) :
        ( /\ calls'[s].pc = "done"
          /\ calls'[s].op.name \in {"bet", "fold"}
          /\ calls'[s].value.game # None
          /\ calls'[s].ret # Raised )
        => StageOutcome(calls'[s])

\* C24: within a hand the stage never goes down and never exceeds RIVER; a
\* settled round leads to the showdown if fewer than two players are not
\* folded or the stage was RIVER, otherwise to a higher stage; PRE_FLOP
\* comes back only with a new hand; every bet and fold ends.
C24_StageAdvances == [][StageStep /\ StageOutcomes]_vars

\* a bet settled the first round of a hand of three with all of them in,
\* and the stored Game is at the flop with a player to act
C24_ToTheFlop ==
    \E s \in SeqSet(Sessions) :
        /\ SettledRound(s)
        /\ calls[s].value.game.stage = PRE_FLOP
        /\ Cardinality(NotFolded(calls[s].value.game)) = 3
        /\ store.value = calls[s].ret
        /\ store.value.game # None
        /\ store.value.game.stage = FLOP
        /\ NextToAct(store.value) # None

\* the call of s was a bet that Game._bet accepted from the player to act
AcceptedBet(s) ==
    /\ Over(s)
    /\ calls[s].op.name = "bet"
    /\ calls[s].value.game # None
    /\ BetInTurn(s)
    /\ _bet(calls[s].value, s, calls[s].op.value).got # None

InHand(room, session_id) == room.game.players[KeyIdx(room.game.players, session_id)]

\* the rooms before and after the bet differ for the bettor by the chips
\* moved and the option flag, and for nobody else
MovedChips(before, after, session_id, value) ==
    LET moved == Min(value - InHand(before, session_id).bet, BalanceOf(before, session_id))
    IN  /\ moved >= 0
        /\ BalanceOf(after, session_id) = BalanceOf(before, session_id) - moved
        /\ BalanceOf(after, session_id) >= 0
        /\ InHand(after, session_id).bet = InHand(before, session_id).bet + moved
        /\ after.game.pot = before.game.pot + moved
        /\ ~InHand(after, session_id).has_option
        /\ InHand(after, session_id).eligibility = InHand(before, session_id).eligibility
        /\ Len(after.players) = Len(before.players)
        /\ Len(after.game.players) = Len(before.game.players)
        /\ \A i \in 1..Len(before.players) :
              before.players[i].session_id # session_id => after.players[i] = before.players[i]
        /\ \A i \in 1..Len(before.game.players) :
              before.game.players[i].session_id # session_id
                  => after.game.players[i] = before.game.players[i]

\* C25: an accepted bet of total value v by player p moves min(v - p's round
\* bet, p's balance) chips from p's balance to p's round bet and to the pot,
\* clears p's option flag, leaves no balance negative and, before any
\* settlement, changes nothing of any other player; without a settlement
\* that is the room written.
C25_BetMovesChips ==
    \A s \in SeqSet(Sessions) :
        AcceptedBet(s) =>
            /\ MovedChips(calls[s].value, Acted(calls[s]), s, calls[s].op.value)
            /\ \A i \in 1..Len(Acted(calls[s]).players) : Acted(calls[s]).players[i].balance >= 0
            /\ (calls[s].ret # Raised /\ NextToAct(Acted(calls[s])) # None)
                   => calls[s].ret = Acted(calls[s])

\* a raise beyond the balance was accepted in a hand of three: the bettor is
\* all-in for less than the value bet and the round goes on
C25_AllInForLess ==
    \E s \in SeqSet(Sessions) :
        /\ AcceptedBet(s)
        /\ Len(calls[s].value.game.players) = 3
        /\ calls[s].op.value > InHand(calls[s].value, s).bet + BalanceOf(calls[s].value, s)
        /\ BalanceOf(calls[s].value, s) > 0
        /\ calls[s].ret # Raised
        /\ store.value = calls[s].ret
        /\ NextToAct(store.value) # None
        /\ BalanceOf(store.value, s) = 0

\* the call of s was a fold by the player to act
FoldInTurn(call, s) ==
    /\ call.pc = "done"
    /\ call.op.name = "fold"
    /\ call.value.game # None
    /\ NextToAct(call.value) = <<s>>

Folded(game) == {game.players[i].session_id :
                    i \in {k \in 1..Len(game.players) : game.players[k].eligibility = None}}

\* the fold marked the player folded, cleared the option flag and changed
\* nothing else
FoldOnly(before, after, session_id) ==
    /\ InHand(after, session_id).eligibility = None
    /\ ~InHand(after, session_id).has_option
    /\ after.players = before.players
    /\ after.game.pot = before.game.pot
    /\ RoundBets(after.game) = RoundBets(before.game)
    /\ \A i \in 1..Len(before.game.players) :
          /\ after.game.players[i].bet = before.game.players[i].bet
          /\ before.game.players[i].session_id # session_id
                => after.game.players[i] = before.game.players[i]

\* over a step within a hand the folded players stay folded
StayFolded ==
    ( /\ store.value.game # None
      /\ store'.value.game # None
      /\ Len(store'.value.log) = Len(store.value.log) )
    => Folded(store.value.game) \subseteq Folded(store'.value.game)

\* the stored Game names no folded player as next to act
FoldedNotNamed ==
    (store'.value.game # None) =>
        \A session_id \in Folded(store'.value.game) : NextToAct(store'.value) # <<session_id>>

\* a bet or fold that completed a hand logged no payout for a player who
\* was folded when the hand ended
FoldedNotPaid(call) ==
    ( /\ call.pc = "done"
      /\ call.op.name \in {"bet", "fold"}
      /\ call.value.game # None
      /\ call.ret # Raised
      /\ HandLogged(call) )
    => \A session_id \in Folded(Acted(call).game) :
          /\ KeyIdx(call.ret.log[Len(call.ret.log)].players, session_id) = 0
          /\ BalanceOf(call.ret, session_id) <= BalanceOf(call.value, session_id)

\* C26: a fold by the player to act marks that player folded and clears the
\* option flag without changing a balance, a round bet or the pot; for the
\* rest of the hand a folded player is never next to act and is paid nothing.
C26_FoldedIsOut ==
    [][ /\ StayFolded
        /\ FoldedNotNamed
        /\ \A s \in SeqSet(Sessions) :
              /\ FoldInTurn(calls'[s], s) => FoldOnly(calls'[s].value, Acted(calls'[s]), s)
              /\ ( /\ FoldInTurn(calls'[s], s)
                   /\ calls'[s].ret # Raised
                   /\ NextToAct(Acted(calls'[s])) # None ) => calls'[s].ret = Acted(calls'[s])
              /\ FoldedNotPaid(calls'[s]) ]_vars

\* a hand of three went to the showdown with one player folded, and the pot
\* was paid to another
C26_FoldedLosesBet ==
    \E s \in SeqSet(Sessions) :
        /\ ShowedDown(s)
        /\ calls[s].ret # Raised
        /\ Len(calls[s].value.game.players) = 3
        /\ Cardinality(Folded(Acted(calls[s]).game)) = 1
        /\ TotalPayout(calls[s].ret.log[Len(calls[s].ret.log)].players) > 0

\* the call of s began a hand: a start, or a bet or fold that completed the
\* hand before, whose room has a Game
BeganHand(s) ==
    /\ Returned(s)
    /\ calls[s].value # NOT_PRESENT
    /\ \/ calls[s].op.name = "start" /\ calls[s].value.game = None
       \/ /\ calls[s].op.name \in {"bet", "fold"}
          /\ calls[s].value.game # None
          /\ HandLogged(calls[s])
    /\ calls[s].ret.game # None

\* what a player held before the blinds were posted
Held(room, i) == BalanceOf(room, room.game.players[i].session_id) + room.game.players[i].bet

\* the players who held chips, as indices in act order
Holders(room) ==
    SelectSeq([i \in 1..Len(room.game.players) |-> i], LAMBDA i : Held(room, i) > 0)

\* the blinds of the new hand as the claim has them
BlindsPosted(room) ==
    LET players == room.game.players
        holders == Holders(room)
        small == IF Len(holders) = 2 THEN holders[2] ELSE holders[1]
        big == IF Len(holders) = 2 THEN holders[1] ELSE holders[2]
    IN  /\ Len(holders) >= 2
        /\ small # big
        /\ players[small].bet = Min(room.small_blind, Held(room, small))
        /\ players[big].bet = Min(2 * room.small_blind, Held(room, big))
        /\ players[small].has_option
        /\ players[big].has_option
        /\ \A i \in 1..Len(players) : i \notin {small, big} => players[i].bet = 0
        /\ room.game.stage = PRE_FLOP

\* C27: at the start of every hand two distinct players who hold chips post
\* the blinds: of exactly two the later in act order the small and the
\* earlier the big blind, of three or more the first the small and the
\* second the big blind; each post is min(blind, balance) and both posters
\* hold the option flag.
C27_BlindsPosted ==
    \A s \in SeqSet(Sessions) : BeganHand(s) => BlindsPosted(calls[s].ret)

\* a heads-up hand began in which the big blind, the first in act order,
\* could not cover it and is all-in
C27_ShortBigBlind ==
    \E s \in SeqSet(Sessions) :
        /\ BeganHand(s)
        /\ Len(Holders(calls[s].ret)) = 2
        /\ LET room == calls[s].ret
               big == Holders(room)[1]
           IN  /\ room.game.players[big].bet < 2 * room.small_blind
               /\ room.game.players[big].bet > 0
               /\ BalanceOf(room, room.game.players[big].session_id) = 0

(***************************************************************************)
(* Whole calls one at a time on a seeded room that sessions may also join: *)
(* a session that registers while a hand is played is seated by the        *)
(* new_game of the next hand.                                              *)
(***************************************************************************)
SeatSeeds == {<<100, 100>>, <<5, 10, 20>>, <<2, 2, 2>>}

InitSeats ==
    /\ \E stacks \in SeatSeeds : store = [index |-> 1, value |-> SeedRoom(stacks)]
    /\ calls = [s \in SeqSet(Sessions) |-> IdleCall]

PlayRegister(s) ==
    /\ Play(s, [name |-> "register", session_id |-> s, player_name |-> NameOf(s)])

NextSeats ==
    \/ NextPlay
    \/ \E s \in SeqSet(Sessions) : PlayRegister(s)

SpecSeats == InitSeats /\ [][NextSeats]_vars

\* the sessions of a list of players, in its order
Ids(players) == [i \in 1..Len(players) |-> players[i].session_id]

\* the call of s completed a hand and began the next
NextHand(s) ==
    /\ Returned(s)
    /\ calls[s].op.name \in {"bet", "fold"}
    /\ calls[s].value.game # None
    /\ HandLogged(calls[s])
    /\ calls[s].ret.game # None

\* the first seat of the previous order whose player has chips after the
\* payout, the blinds of the new hand not yet posted
FirstWithChips(previous, room) ==
    SetMin({i \in 1..Len(previous) :
               Held(room, KeyIdx(room.game.players, previous[i])) > 0})

\* the new act order seats every registered player once, keeps the players
\* of the previous hand in their cyclic order with the first who has chips
\* last of all, and so the new players before them
Reseated(previous, room) ==
    LET order == Ids(room.game.players)
        first == FirstWithChips(previous, room)
    IN  /\ Len(order) = Len(room.players)
        /\ SeqSet(order) = SeqSet(Ids(room.players))
        /\ SelectSeq(order, LAMBDA id : id \in SeqSet(previous))
              = Drop(previous, first) \o Take(previous, first)
        /\ order[Len(order)] = previous[first]

\* C28: when a hand ends and the next begins, the new act order contains
\* every registered player exactly once; the players of the previous hand
\* keep their cyclic order, rotated so that the first of them who still has
\* chips is last (the dealer), and the players registered since are merged
\* in without displacing that order.
C28_Reseated ==
    \A s \in SeqSet(Sessions) :
        NextHand(s) => Reseated(Ids(calls[s].value.game.players), calls[s].ret)

\* a hand of two ended and the next one seats a third player, registered
\* while it was played
C28_NewcomerSeated ==
    \E s \in SeqSet(Sessions) :
        /\ NextHand(s)
        /\ Len(calls[s].value.game.players) = 2
        /\ Len(calls[s].ret.game.players) = 3
        /\ calls[s].ret.game.players[3].session_id = calls[s].value.game.players[1].session_id

\* the call was a bet or fold that completed a hand
CompletedHand(call) ==
    /\ call.pc = "done"
    /\ call.op.name \in {"bet", "fold"}
    /\ call.value # NOT_PRESENT
    /\ call.value.game # None
    /\ Deals(call.op, call.value)

\* the registered players with a nonzero balance
WithChips(room) == {i \in 1..Len(room.players) : room.players[i].balance # 0}

\* paid being the room after the payout: the call wrote a new hand at
\* PRE_FLOP if two players have chips, and a room without a Game if not
ContinuedOrStopped(call, paid) ==
    (paid # Raised) =>
        /\ call.ret # Raised
        /\ IF Cardinality(WithChips(paid)) >= 2
           THEN /\ call.ret.game # None
                /\ call.ret.game.stage = PRE_FLOP
                /\ Len(call.ret.game.players) = Len(call.ret.players)
           ELSE /\ call.ret.game = None
                /\ call.ret.players = paid.players

\* over a step a Game appears in a room without one only by a start
AbsentUntilStart ==
    (store.value # NOT_PRESENT /\ store.value.game = None /\ store'.value.game # None)
        => \E s \in SeqSet(Sessions) :
              /\ calls'[s].pc = "done"
              /\ calls'[s].op.name = "start"
              /\ calls'[s].ret = store'.value

\* C29: after the payout of a hand a new hand at PRE_FLOP is started if and
\* only if at least two registered players have a nonzero balance; otherwise
\* the room's Game becomes absent and stays absent until a later start
\* succeeds.
C29_ContinueOrStop ==
    [][ /\ AbsentUntilStart
        /\ \A s \in SeqSet(Sessions) :
              CompletedHand(calls'[s])
                  => \A paid \in {pay_winners(AtShowdown(calls'[s]))} :
                        ContinuedOrStopped(calls'[s], paid) ]_vars

\* a start began a hand in a room whose log has a completed hand: the
\* payout of that hand had left the room without a Game
C29_StartedAgain ==
    \E s \in SeqSet(Sessions) :
        /\ Returned(s)
        /\ calls[s].op.name = "start"
        /\ calls[s].value.game = None
        /\ calls[s].value.log # <<>>
        /\ Cardinality(WithChips(calls[s].value)) >= 2
        /\ calls[s].ret.game # None
        /\ store.value = calls[s].ret

\* allowance beyond the number of contenders, to run the payout loop with
\* its assertion out of reach
Slack == 100

\* pay_winners's loop on the room, max_payouts raised by Slack
PayUnasserted(room) ==
    LET final_hands == _get_final_hands(room.game)
    IN  PayLoop([final_hands |-> final_hands,
                 pot |-> room.game.pot,
                 players |-> room.players,
                 paid |-> <<>>,
                 max_payouts |-> Len(final_hands) + Slack,
                 community |-> community_cards(room.game),
                 rounds |-> <<>>,
                 stopped |-> FALSE])

\* the rounds of the loop that paid ("max_payouts -= 1")
PayingRounds(out) == Len(SelectSeq(out.rounds, LAMBDA round : round.amount > 0))

\* out being the loop's outcome without the assertion: the loop ended, and
\* paid in no more rounds than it had contenders, so that
\* "assert max_payouts >= 0" holds after each of them
WithinContenders(room, out) ==
    /\ out # Raised
    /\ PayingRounds(out) <= Len(_get_final_hands(room.game))
    /\ out.max_payouts >= Slack

\* C30: the payout loop terminates, and the number of payout rounds never
\* exceeds the number of contenders at the start of the payout: the
\* loop-bound assertion of pay_winners does not fail in a state reached
\* through play.
C30_PayoutRoundsBounded ==
    \A s \in SeqSet(Sessions) :
        ShowedDown(s) =>
            \A room \in {AtShowdown(calls[s])} :
                \A out \in {PayUnasserted(room)} : WithinContenders(room, out)

\* a showdown of three contenders was paid in three rounds, main pot and
\* two side pots
C30_ThreePots ==
    \E s \in SeqSet(Sessions) :
        /\ ShowedDown(s)
        /\ calls[s].ret # Raised
        /\ Len(_get_final_hands(AtShowdown(calls[s]).game)) = 3
        /\ PayOutcome(AtShowdown(calls[s])) # Raised
        /\ PayingRounds(PayOutcome(AtShowdown(calls[s]))) = 3

(***************************************************************************)
(* Properties of the chip accounting                                       *)
(***************************************************************************)
Balances(room) == SeqSum([i \in 1..Len(room.players) |-> room.players[i].balance])

\* the eligibilities of the players who are not folded
Eligibilities(game) == {game.players[i].eligibility[1] : i \in NotFolded(game)}

EligibilitySum(game) ==
    SeqSum([i \in 1..Len(game.players) |->
               IF game.players[i].eligibility = None THEN 0
               ELSE game.players[i].eligibility[1]])

\* the Game of the call of s right after the settlement of its round
JustSettled(s) == _finalize_betting(Acted(calls[s]).game)

\* the chips wagered in the hand up to the settlement: the pot the call
\* found and the chips it took from the balances
WageredAtSettlement(s) ==
    calls[s].value.game.pot + Balances(calls[s].value) - Balances(Acted(calls[s]))

Chips(room) == Balances(room) + (IF room.game = None THEN 0 ELSE room.game.pot)

\* C32 (as the specification states it): bet and fold never create or
\* destroy chips: over a bet or fold the sum of all balances plus the pot
\* of the live Game stays as it was, also across a hand boundary where the
\* payout left a remainder in the pot.
C32_ChipsConserved ==
    [][ \A s \in SeqSet(Sessions) :
          ( /\ calls'[s].pc = "done"
            /\ calls[s].pc # "done"
            /\ calls'[s].op.name \in {"bet", "fold"}
            /\ store.value # NOT_PRESENT )
          => Chips(store'.value) = Chips(store.value) ]_vars

\* Game.pot "can be synthesized as max(eligibility) + sum(current bets)"
SynthesizedPot(game) == SetMax(Eligibilities(game)) + RoundBets(game)

TieSeeds == {<<3, 3, 1>>, <<20, 20, 1>>}

InitTies ==
    /\ \E stacks \in TieSeeds : store = [index |-> 1, value |-> SeedRoom(stacks)]
    /\ calls = [s \in SeqSet(Sessions) |-> IdleCall]

SpecTies == InitTies /\ [][NextPlay]_vars

\* the payout of a showdown ran to its end: the call returned, and the loop
\* ended with an empty pot unless it stopped early
PaidOut(call, out) ==
    /\ call.ret # Raised
    /\ out # Raised
    /\ ~out.stopped => out.pot = 0

\* C34 (as the specification states it): every showdown reachable through
\* play is paid out to completion without aborting the mutation, also when
\* tied winners share a payout round with a losing contender whose
\* eligibility is at most the per-winner amount.
C34_PaidToCompletion ==
    \A s \in SeqSet(Sessions) :
        ShowedDown(s) =>
            \A out \in {PayOutcome(AtShowdown(calls[s]))} : PaidOut(calls[s], out)

\* the payout stopped early with fewer chips in the pot than the round that
\* stopped it had winners
OnlySplitRemainder(out) ==
    (out # Raised /\ out.stopped) =>
        /\ out.rounds[Len(out.rounds)].amount = 0
        /\ out.pot < Len(out.rounds[Len(out.rounds)].winners)

\* C35 (as the specification states it): when pay_winners stops early
\* because the per-winner amount is zero, the chips left in the pot are
\* fewer than the tied winners of that round: only an indivisible split
\* remainder is left over.
C35_OnlySplitRemainder ==
    \A s \in SeqSet(Sessions) :
        ShowedDown(s) =>
            \A out \in {PayOutcome(AtShowdown(calls[s]))} : OnlySplitRemainder(out)

(***************************************************************************)
(* SpecRetry: two sessions call mutate on one room at the same time, with  *)
(* register and a function that returns NO_CHANGE, and the store answers   *)
(* every get and put: a call that has begun goes on with its loop.         *)
(***************************************************************************)
NextRetry ==
    \/ \E s \in Clients, name \in Names : Register(s, name)
    \/ \E s \in Clients : NoChange(s)
    \/ \E s \in Clients : Get(s)
    \/ \E s \in Clients : Put(s)
    \/ \E s \in Clients : Return(s)

\* the store answers and the caller's thread runs on: a get or a put that
\* is due is made
Fairness == \A s \in Clients : WF_vars(Get(s)) /\ WF_vars(Put(s))

SpecRetry == Init /\ [][NextRetry]_vars /\ Fairness

\* the put of s was refused by the store: its loop goes round again
Refused(s) == calls[s].pc = "put" /\ calls'[s].pc = "get"

\* the put of s is made on the entry s read: no write was accepted since
Unchallenged(s) == calls[s].pc = "put" /\ calls'[s].pc # "put" /\ store.index = calls[s].index

\* what mutate may return for the value it read last: the value itself for
\* NO_CHANGE, the new value, or the exception of fn
Answers(call) ==
    \E rnd \in Draws(call.op, call.value) :
        \E new_value \in {Fn(call.op, call.value, rnd)} :
            IF new_value = NO_CHANGE THEN call.ret = call.value ELSE call.ret = new_value

\* one step of the calls: a refusal follows a write accepted since the
\* read and changes nothing; an unchallenged put ends the call, in one read
\* and at most one write if it was its first; and a call ends with an
\* answer of fn, not with the conflict
RetryStep ==
    \A s \in Clients :
        /\ Refused(s) => (store.index > calls[s].index /\ store' = store)
        /\ Unchallenged(s) => calls'[s].pc = "done"
        /\ (Unchallenged(s) /\ calls[s].reads = 0) =>
              /\ calls'[s].reads = 1
              /\ calls'[s].writes = IF store' = store THEN 0 ELSE 1
        /\ (calls[s].pc = "put" /\ calls'[s].pc = "done") => Answers(calls'[s])

\* C36: with the store answering every request, every call of mutate
\* eventually returns and no version conflict reaches a caller: a put is
\* refused only if another call's write was accepted after the read, and a
\* call with no concurrent writer completes in one read and one write.
C36_EveryCallReturns ==
    /\ [][RetryStep]_vars
    /\ \A s \in Clients : (calls[s].pc \in {"get", "put"}) ~> (calls[s].pc = "done")

\* a call returned after the store had refused its put twice: it read three
\* times and wrote once
C36_ReturnedOnThirdRound ==
    \E s \in Clients :
        /\ calls[s].pc = "done"
        /\ calls[s].reads = 3
        /\ calls[s].writes = 1
        /\ calls[s].ret = store.value

====
